---- MODULE Spec2Model ----
(***************************************************************************)
(* DLList<T> of cpp/ds/dllist.cpp: a doubly linked list of individually    *)
(* allocated nodes with a cyclic bidirectional iterator, an in-place       *)
(* stable merge sort and position based insert/erase.                      *)
(*                                                                         *)
(* The heap is a function from node addresses to nodes.  A list is the     *)
(* record [heap, head, tail, size]; every member function is an operator   *)
(* from such a record (and its arguments) to the record after the call,    *)
(* written statement by statement from the source.                         *)
(***************************************************************************)
EXTENDS Integers, Sequences, FiniteSets, TLC

\* longest list the model builds, and the number of node addresses
MaxLen == 3
\* most iterator steps taken in one walk
MaxK == 5

\* nullptr
NULL == 0
\* the divisor of the tens comparator and of the insert-while-iterating loop
Ten == 10

Nodes == 1..MaxLen
Ptrs == Nodes \cup {NULL}
\* element values: 10 and 11 share a tens bucket, 10 is divisible by ten
Vals == {9, 10, 11}
\* the comparators the tests pass to sort: a < b, a > b, a/10 < b/10
Comps == {"lt", "gt", "tens"}

-----------------------------------------------------------------------------
(* nodes and the allocator *)

FreeNode == [used |-> FALSE, val |-> 0, prev |-> NULL, next |-> NULL]

\* _node(val, prev, next)
Node(val, prev, next) == [used |-> TRUE, val |-> val, prev |-> prev, next |-> next]

Free(h) == {n \in DOMAIN h : ~h[n].used}

\* new _node: an address that is not in use (the lowest one)
New(h) == CHOOSE n \in Free(h) : \A m \in Free(h) : n <= m

\* delete n
Delete(h, n) == [h EXCEPT ![n] = FreeNode]

EmptyHeap == [n \in Nodes |-> FreeNode]

\* a list object over heap h
List(h, hd, tl, sz) == [heap |-> h, head |-> hd, tail |-> tl, size |-> sz]

-----------------------------------------------------------------------------
(* iterators: _iter is a node pointer and the list it belongs to *)

Iter(ptr, list) == [ptr |-> ptr, list |-> list]

begin(S, l) == Iter(S.head, l)

end(S, l) == Iter(NULL, l)

IterEq(i, j) == i.ptr = j.ptr

IterNe(i, j) == i.ptr # j.ptr

\* ++itr, S being the list itr._list points to
PreInc(S, i) == [i EXCEPT !.ptr = IF i.ptr # NULL THEN S.heap[i.ptr].next ELSE S.head]

\* --itr that wraps from the sentinel to _list->_head
PreDec_to_head(S, i) == [i EXCEPT !.ptr = IF i.ptr # NULL THEN S.heap[i.ptr].prev ELSE S.head]

\* --itr
PreDec(S, i) == [i EXCEPT !.ptr = IF i.ptr # NULL THEN S.heap[i.ptr].prev ELSE S.tail]

\* itr++ : the copy taken before the move is returned, the iterator is moved by ++
PostInc(S, i) == [ret |-> i, it |-> PreInc(S, i)]

\* itr--
PostDec(S, i) == [ret |-> i, it |-> PreDec(S, i)]

-----------------------------------------------------------------------------
(* constructors *)

\* DLList()
DefaultCtor(h) == List(h, NULL, NULL, 0)

RECURSIVE FillLoop(_, _, _, _)
\* while (--siz) { _tail->_next = new _node(val,_tail); _tail = _tail->_next; }
FillLoop(h, tl, siz, val) ==
    IF siz - 1 = 0 THEN [heap |-> h, tail |-> tl]
    ELSE LET n == New(h)
             h1 == [h EXCEPT ![n] = Node(val, tl, NULL), ![tl].next = n]
         IN FillLoop(h1, n, siz - 1, val)

\* DLList(siz, val), for an accepted siz
FillCtor(h, siz, val) ==
    IF siz = 0 THEN List(h, NULL, NULL, siz)
    ELSE LET n == New(h)
             r == FillLoop([h EXCEPT ![n] = Node(val, NULL, NULL)], n, siz, val)
         IN List(r.heap, n, r.tail, siz)

\* an int64_t argument is held as two words, hi * Word + lo with 0 <= lo < Word,
\* so that 1LL << 48 (hi = Word, lo = 0) and its neighbours are values of the model
Word == 2^24

Int64(hi, lo) == [hi |-> hi, lo |-> lo]

\* siz >= 0
NotNegative(siz) == siz.hi >= 0

\* siz < (1LL << 48)
BelowLimit(siz) == siz.hi < Word

\* DLList(siz, val) that leaves out CHECK_THROW(siz < (1LL << 48))
FillChecks_no_limit(siz) == NotNegative(siz)

\* CHECK_THROW(siz >= 0); CHECK_THROW(siz < (1LL << 48));
FillChecks(siz) == NotNegative(siz) /\ BelowLimit(siz)

\* DLList(siz, val) for a siz that passed the checks, over a heap with nodes left
\* free: the list when every new succeeds, or the heap at the moment operator
\* new has no node left and throws std::bad_alloc out of the constructor
FillCtorAlloc(h, siz, val) ==
    LET room == Cardinality(Free(h))
    IN IF siz.hi = 0 /\ siz.lo <= room
       THEN [bad_alloc |-> FALSE, st |-> FillCtor(h, siz.lo, val)]
       ELSE [bad_alloc |-> TRUE, st |-> List(FillCtor(h, room, val).heap, NULL, NULL, 0)]

RECURSIVE InitListLoop(_, _, _, _, _)
\* for (const T& val : vals) ...
InitListLoop(h, hd, tl, vals, k) ==
    IF k > Len(vals) THEN [heap |-> h, head |-> hd, tail |-> tl]
    ELSE LET n == New(h)
         IN IF tl # NULL
            THEN InitListLoop([h EXCEPT ![n] = Node(vals[k], tl, NULL), ![tl].next = n],
                              hd, n, vals, k + 1)
            ELSE InitListLoop([h EXCEPT ![n] = Node(vals[k], NULL, NULL)],
                              n, n, vals, k + 1)

\* DLList({val0, val1, ...})
InitListCtor(h, vals) ==
    LET r == InitListLoop(h, NULL, NULL, vals, 1)
    IN List(r.heap, r.head, r.tail, Len(vals))

-----------------------------------------------------------------------------
(* push and pop *)

\* push_front(val)
push_front(S, val) ==
    LET n == New(S.heap)
    IN IF S.head = NULL
       THEN List([S.heap EXCEPT ![n] = Node(val, NULL, NULL)], n, n, S.size + 1)
       ELSE List([S.heap EXCEPT ![n] = Node(val, NULL, S.head), ![S.head].prev = n],
                 n, S.tail, S.size + 1)

\* push_back(val)
push_back(S, val) ==
    LET n == New(S.heap)
    IN IF S.head = NULL
       THEN List([S.heap EXCEPT ![n] = Node(val, NULL, NULL)], n, n, S.size + 1)
       ELSE List([S.heap EXCEPT ![n] = Node(val, S.tail, NULL), ![S.tail].next = n],
                 S.head, n, S.size + 1)

\* pop_front() that returns the value of the last node
pop_front_returns_tail(S) ==
    IF S.head = NULL THEN [st |-> S, thrown |-> TRUE, ret |-> 0]
    ELSE LET n == S.head
             nh == S.heap[n].next
             h1 == Delete(S.heap, n)
         IN [st |-> IF nh # NULL
                    THEN List([h1 EXCEPT ![nh].prev = NULL], nh, S.tail, S.size - 1)
                    ELSE List(h1, nh, NULL, S.size - 1),
             thrown |-> FALSE, ret |-> S.heap[S.tail].val]

\* pop_front(): CHECK_THROW(_head), then unlink and delete the head
pop_front(S) ==
    IF S.head = NULL THEN [st |-> S, thrown |-> TRUE, ret |-> 0]
    ELSE LET n == S.head
             nh == S.heap[n].next
             h1 == Delete(S.heap, n)
         IN [st |-> IF nh # NULL
                    THEN List([h1 EXCEPT ![nh].prev = NULL], nh, S.tail, S.size - 1)
                    ELSE List(h1, nh, NULL, S.size - 1),
             thrown |-> FALSE, ret |-> S.heap[n].val]

\* pop_back() without the statement --_size
pop_back_no_dec(S) ==
    IF S.tail = NULL THEN [st |-> S, thrown |-> TRUE, ret |-> 0]
    ELSE LET n == S.tail
             nt == S.heap[n].prev
             h1 == Delete(S.heap, n)
         IN [st |-> IF nt # NULL
                    THEN List([h1 EXCEPT ![nt].next = NULL], S.head, nt, S.size)
                    ELSE List(h1, NULL, nt, S.size),
             thrown |-> FALSE, ret |-> S.heap[n].val]

\* pop_back(): CHECK_THROW(_tail), then unlink and delete the tail
pop_back(S) ==
    IF S.tail = NULL THEN [st |-> S, thrown |-> TRUE, ret |-> 0]
    ELSE LET n == S.tail
             nt == S.heap[n].prev
             h1 == Delete(S.heap, n)
         IN [st |-> IF nt # NULL
                    THEN List([h1 EXCEPT ![nt].next = NULL], S.head, nt, S.size - 1)
                    ELSE List(h1, NULL, nt, S.size - 1),
             thrown |-> FALSE, ret |-> S.heap[n].val]

RECURSIVE ClearLoop(_, _)
\* _clear(): while (_head) { n = _head; _head = _head->_next; delete n; }
ClearLoop(h, hd) ==
    IF hd = NULL THEN h ELSE ClearLoop(Delete(h, hd), h[hd].next)

\* clear(): _clear(); _size = 0
clear(S) == List(ClearLoop(S.heap, S.head), NULL, NULL, 0)

-----------------------------------------------------------------------------
(* reverse *)

RECURSIVE ReverseLoop(_, _)
\* while (n) { std::swap(n->_next, n->_prev); n = n->_next; }
ReverseLoop(h, n) ==
    IF n = NULL THEN h
    ELSE LET h1 == [h EXCEPT ![n].next = h[n].prev, ![n].prev = h[n].next]
         IN ReverseLoop(h1, h1[n].next)

\* reverse() without std::swap(_head,_tail)
reverse_keeps_ends(S) == List(ReverseLoop(S.heap, S.head), S.head, S.tail, S.size)

\* reverse(): std::swap(_head,_tail), then swap the links of every node
reverse(S) == List(ReverseLoop(S.heap, S.tail), S.tail, S.head, S.size)

-----------------------------------------------------------------------------
(* insert and erase *)

\* insert(itr, val) without the statement itr._ptr->_prev = n
insert_no_backlink(S, l, itr, val) ==
    IF IterEq(itr, begin(S, l))
    THEN LET T == push_front(S, val) IN [st |-> T, ret |-> begin(T, l)]
    ELSE IF IterEq(itr, end(S, l))
    THEN LET T == push_back(S, val) IN [st |-> T, ret |-> Iter(T.tail, l)]
    ELSE LET n == New(S.heap)
             p == S.heap[itr.ptr].prev
             h1 == [S.heap EXCEPT ![n] = Node(val, p, itr.ptr)]
             h2 == [h1 EXCEPT ![p].next = n]
         IN [st |-> List(h2, S.head, S.tail, S.size + 1), ret |-> Iter(n, l)]

\* insert(itr, val) that returns end() after the push_back
insert_returns_end(S, l, itr, val) ==
    IF IterEq(itr, begin(S, l))
    THEN LET T == push_front(S, val) IN [st |-> T, ret |-> begin(T, l)]
    ELSE IF IterEq(itr, end(S, l))
    THEN LET T == push_back(S, val) IN [st |-> T, ret |-> end(T, l)]
    ELSE LET n == New(S.heap)
             p == S.heap[itr.ptr].prev
             h1 == [S.heap EXCEPT ![n] = Node(val, p, itr.ptr)]
             h2 == [h1 EXCEPT ![p].next = n]
             h3 == [h2 EXCEPT ![itr.ptr].prev = n]
         IN [st |-> List(h3, S.head, S.tail, S.size + 1), ret |-> Iter(n, l)]

\* insert(itr, val)
insert(S, l, itr, val) ==
    IF IterEq(itr, begin(S, l))
    THEN LET T == push_front(S, val) IN [st |-> T, ret |-> begin(T, l)]
    ELSE IF IterEq(itr, end(S, l))
    THEN LET T == push_back(S, val) IN [st |-> T, ret |-> Iter(T.tail, l)]
    ELSE LET n == New(S.heap)
             p == S.heap[itr.ptr].prev
             h1 == [S.heap EXCEPT ![n] = Node(val, p, itr.ptr)]
             h2 == [h1 EXCEPT ![p].next = n]
             h3 == [h2 EXCEPT ![itr.ptr].prev = n]
         IN [st |-> List(h3, S.head, S.tail, S.size + 1), ret |-> Iter(n, l)]

\* erase(itr) that returns the new tail when the tail is erased
erase_returns_tail(S, l, itr) ==
    IF ~IterNe(itr, end(S, l)) THEN [st |-> S, thrown |-> TRUE, ret |-> itr]
    ELSE IF IterEq(itr, begin(S, l))
    THEN LET r == pop_front(S)
         IN [st |-> r.st, thrown |-> r.thrown, ret |-> begin(r.st, l)]
    ELSE IF itr.ptr = S.tail
    THEN LET nt == S.heap[itr.ptr].prev
             h1 == [S.heap EXCEPT ![nt].next = NULL]
             T == List(Delete(h1, itr.ptr), S.head, nt, S.size - 1)
         IN [st |-> T, thrown |-> FALSE, ret |-> Iter(nt, l)]
    ELSE LET p == S.heap[itr.ptr].prev
             n == S.heap[itr.ptr].next
             h1 == [S.heap EXCEPT ![p].next = n]
             h2 == [h1 EXCEPT ![n].prev = p]
         IN [st |-> List(Delete(h2, itr.ptr), S.head, S.tail, S.size - 1),
             thrown |-> FALSE, ret |-> Iter(n, l)]

\* erase(itr) without the statement itr._ptr->_next->_prev = itr._ptr->_prev
erase_no_backlink(S, l, itr) ==
    IF ~IterNe(itr, end(S, l)) THEN [st |-> S, thrown |-> TRUE, ret |-> itr]
    ELSE IF IterEq(itr, begin(S, l))
    THEN LET r == pop_front(S)
         IN [st |-> r.st, thrown |-> r.thrown, ret |-> begin(r.st, l)]
    ELSE IF itr.ptr = S.tail
    THEN LET nt == S.heap[itr.ptr].prev
             h1 == [S.heap EXCEPT ![nt].next = NULL]
             T == List(Delete(h1, itr.ptr), S.head, nt, S.size - 1)
         IN [st |-> T, thrown |-> FALSE, ret |-> end(T, l)]
    ELSE LET p == S.heap[itr.ptr].prev
             n == S.heap[itr.ptr].next
             h1 == [S.heap EXCEPT ![p].next = n]
         IN [st |-> List(Delete(h1, itr.ptr), S.head, S.tail, S.size - 1),
             thrown |-> FALSE, ret |-> Iter(n, l)]

\* erase(itr)
erase(S, l, itr) ==
    IF ~IterNe(itr, end(S, l)) THEN [st |-> S, thrown |-> TRUE, ret |-> itr]
    ELSE IF IterEq(itr, begin(S, l))
    THEN LET r == pop_front(S)
         IN [st |-> r.st, thrown |-> r.thrown, ret |-> begin(r.st, l)]
    ELSE IF itr.ptr = S.tail
    THEN LET nt == S.heap[itr.ptr].prev
             h1 == [S.heap EXCEPT ![nt].next = NULL]
             T == List(Delete(h1, itr.ptr), S.head, nt, S.size - 1)
         IN [st |-> T, thrown |-> FALSE, ret |-> end(T, l)]
    ELSE LET p == S.heap[itr.ptr].prev
             n == S.heap[itr.ptr].next
             h1 == [S.heap EXCEPT ![p].next = n]
             h2 == [h1 EXCEPT ![n].prev = p]
         IN [st |-> List(Delete(h2, itr.ptr), S.head, S.tail, S.size - 1),
             thrown |-> FALSE, ret |-> Iter(n, l)]

-----------------------------------------------------------------------------
(* the loop of test_insert_erase that inserts while it iterates *)

RECURSIVE TensLoop(_, _, _, _)
\* while (a3iter != a3.end()) { a3iter2 = a3iter;
\*   if (*a3iter % 10 == 0) a3iter = a3.insert(++a3iter2, *a3iter+1);
\*   ++a3iter; }
\* visited collects the node a3iter is at when the loop body starts
TensLoop(S, l, a3iter, visited) ==
    IF ~IterNe(a3iter, end(S, l)) THEN [st |-> S, visited |-> visited]
    ELSE LET v == S.heap[a3iter.ptr].val
         IN IF v % Ten = 0
            THEN LET r == insert(S, l, PreInc(S, a3iter), v + 1)
                 IN TensLoop(r.st, l, PreInc(r.st, r.ret), Append(visited, a3iter.ptr))
            ELSE TensLoop(S, l, PreInc(S, a3iter), Append(visited, a3iter.ptr))

-----------------------------------------------------------------------------
(* sort: in place merge sort *)

\* the comparator comp(a, b)
Comp(c, a, b) ==
    CASE c = "lt" -> a < b
      [] c = "gt" -> a > b
      [] c = "tens" -> (a \div Ten) < (b \div Ten)

RECURSIVE SplitFrom(_, _, _, _)
\* for (;;) { if (m1->_next == m2) break; m1 = m1->_next;
\*            if (m2->_prev == m1) break; m2 = m2->_prev; }
\* steps counts the links followed.  A pointer that has become null is
\* dereferenced by the next test or by the cut after the loop, and a loop that
\* has followed more links than there are nodes does not end: no defined outcome
SplitFrom(h, m1, m2, steps) ==
    IF m1 = NULL \/ m2 = NULL \/ steps > Cardinality(DOMAIN h)
    THEN [m1 |-> m1, m2 |-> m2, steps |-> steps, undefined |-> TRUE]
    ELSE IF h[m1].next = m2
    THEN [m1 |-> m1, m2 |-> m2, steps |-> steps, undefined |-> FALSE]
    ELSE LET n1 == h[m1].next
         IN IF n1 # NULL /\ h[m2].prev = n1
            THEN [m1 |-> n1, m2 |-> m2, steps |-> steps + 1, undefined |-> FALSE]
            ELSE SplitFrom(h, n1, h[m2].prev, steps + 2)

\* a split that leaves m1 at beg and takes m2 = beg->_next: one node on the left
SplitLoop_after_first(h, m1, m2) ==
    [m1 |-> m1, m2 |-> h[m1].next, steps |-> 0, undefined |-> FALSE]

\* the two-pointer loop of _sort: m1 walks forward from beg, m2 backward from end
SplitLoop(h, m1, m2) == SplitFrom(h, m1, m2, 0)

\* the test of a merge step written as !comp(left->_val, right->_val)
TakeRight_unless_left_less(h, c, left, right) == ~Comp(c, h[left].val, h[right].val)

\* the test of a merge step: comp(right->_val, left->_val)
TakeRight(h, c, left, right) == Comp(c, h[right].val, h[left].val)

\* the first node of the merged chain taken from the left half without a test
MergeFirst_left(h, c, left, right) ==
    [heap |-> h, head |-> left, tail |-> left, left |-> h[left].next, right |-> right]

\* the first node of the merged chain
MergeFirst(h, c, left, right) ==
    IF TakeRight(h, c, left, right)
    THEN [heap |-> h, head |-> right, tail |-> right, left |-> left, right |-> h[right].next]
    ELSE [heap |-> h, head |-> left, tail |-> left, left |-> h[left].next, right |-> right]

RECURSIVE MergeLoop(_, _, _, _, _)
\* while (left && right) { link the smaller front node after ret_tail }
MergeLoop(h, c, left, right, ret_tail) ==
    IF left # NULL /\ right # NULL
    THEN IF TakeRight(h, c, left, right)
         THEN LET h1 == [h EXCEPT ![right].prev = ret_tail]
                  h2 == [h1 EXCEPT ![ret_tail].next = right]
              IN MergeLoop(h2, c, left, h2[right].next, h2[ret_tail].next)
         ELSE LET h1 == [h EXCEPT ![left].prev = ret_tail]
                  h2 == [h1 EXCEPT ![ret_tail].next = left]
              IN MergeLoop(h2, c, h2[left].next, right, h2[ret_tail].next)
    ELSE [heap |-> h, left |-> left, right |-> right, tail |-> ret_tail]

\* the rest is spliced after ret_tail, but ret_tail is not moved to its end
MergeRest_stale_tail(h, left, right, ret_tail, left_second, right_second) ==
    IF left # NULL
    THEN LET h1 == [h EXCEPT ![left].prev = ret_tail]
         IN [heap |-> [h1 EXCEPT ![ret_tail].next = left], tail |-> ret_tail]
    ELSE LET h1 == [h EXCEPT ![right].prev = ret_tail]
         IN [heap |-> [h1 EXCEPT ![ret_tail].next = right], tail |-> ret_tail]

\* the rest of the half that is not exhausted is spliced after ret_tail
MergeRest(h, left, right, ret_tail, left_second, right_second) ==
    IF left # NULL
    THEN LET h1 == [h EXCEPT ![left].prev = ret_tail]
         IN [heap |-> [h1 EXCEPT ![ret_tail].next = left], tail |-> left_second]
    ELSE LET h1 == [h EXCEPT ![right].prev = ret_tail]
         IN [heap |-> [h1 EXCEPT ![ret_tail].next = right], tail |-> right_second]

RECURSIVE sort_rec(_, _, _, _)
\* _sort(beg, end, comp): the pair (first, second) of the sorted chain, and the heap
sort_rec(h, beg, end_, c) ==
    IF beg = end_ THEN [heap |-> h, first |-> beg, second |-> end_]
    ELSE LET m == SplitLoop(h, beg, end_)
             h1 == [h EXCEPT ![m.m1].next = NULL]
             h2 == [h1 EXCEPT ![m.m2].prev = NULL]
             sorted_left == sort_rec(h2, beg, m.m1, c)
             sorted_right == sort_rec(sorted_left.heap, m.m2, end_, c)
             f == MergeFirst(sorted_right.heap, c, sorted_left.first, sorted_right.first)
             w == MergeLoop(f.heap, c, f.left, f.right, f.tail)
             r == MergeRest(w.heap, w.left, w.right, w.tail,
                            sorted_left.second, sorted_right.second)
         IN [heap |-> r.heap, first |-> f.head, second |-> r.tail]

\* _sort_init(comp)
sort_init(S, c) ==
    LET sorted == sort_rec(S.heap, S.head, S.tail, c)
    IN List(sorted.heap, sorted.first, sorted.second, S.size)

\* sort(comp): if (_head) _sort_init(comp)
sort(S, c) == IF S.head # NULL THEN sort_init(S, c) ELSE S

-----------------------------------------------------------------------------
(* dereference and get *)

\* *itr : CHECK_THROW(_ptr); return _ptr->_val
Deref(S, i) ==
    IF i.ptr = NULL THEN [thrown |-> TRUE, ref |-> NULL]
    ELSE [thrown |-> FALSE, ref |-> i.ptr]

RECURSIVE GetBackLoop(_, _, _, _)
\* while (++j < _size) n = n->_prev; a step from no node has no defined outcome;
\* fuel goes down by one with every link followed
GetBackLoop(S, n, j, fuel) ==
    IF ~(j + 1 < S.size) THEN [ref |-> n, undefined |-> FALSE, fuel |-> fuel]
    ELSE IF n = NULL \/ fuel = 0 THEN [ref |-> NULL, undefined |-> TRUE, fuel |-> fuel]
    ELSE GetBackLoop(S, S.heap[n].prev, j + 1, fuel - 1)

RECURSIVE GetFrontLoop(_, _, _, _)
\* while (j--) n = n->_next
GetFrontLoop(S, n, j, fuel) ==
    IF j = 0 THEN [ref |-> n, undefined |-> FALSE, fuel |-> fuel]
    ELSE IF n = NULL \/ fuel = 0 THEN [ref |-> NULL, undefined |-> TRUE, fuel |-> fuel]
    ELSE GetFrontLoop(S, S.heap[n].next, j - 1, fuel - 1)

\* the outcome of an accepted get whose walk r started with fuel for every node:
\* back tells the end it started from, links the number of links it followed
Walked(S, r, back) ==
    [thrown |-> FALSE, ref |-> r.ref, undefined |-> r.undefined \/ r.ref = NULL,
     back |-> back, links |-> Cardinality(DOMAIN S.heap) - r.fuel]

\* the outcome of a rejected get
Rejected == [thrown |-> TRUE, ref |-> NULL, undefined |-> FALSE, back |-> FALSE, links |-> 0]

\* get(i) whose check admits i == _size
get_admits_size(S, i) ==
    IF ~(i <= S.size /\ i >= -S.size) THEN Rejected
    ELSE LET j == IF i >= 0 THEN i ELSE S.size + i
         IN IF j >= S.size \div 2
            THEN Walked(S, GetBackLoop(S, S.tail, j, Cardinality(DOMAIN S.heap)), TRUE)
            ELSE Walked(S, GetFrontLoop(S, S.head, j, Cardinality(DOMAIN S.heap)), FALSE)

\* get(i) that always walks forward from _head
get_from_head(S, i) ==
    IF ~(i < S.size /\ i >= -S.size) THEN Rejected
    ELSE LET j == IF i >= 0 THEN i ELSE S.size + i
         IN Walked(S, GetFrontLoop(S, S.head, j, Cardinality(DOMAIN S.heap)), FALSE)

\* get(i): CHECK_THROW(i < _size && i >= -_size); j = i >= 0 ? i : _size+i;
\* from _tail when j >= _size/2, from _head otherwise; return n->_val.
\* ref is the node whose _val the returned reference is bound to
get(S, i) ==
    IF ~(i < S.size /\ i >= -S.size) THEN Rejected
    ELSE LET j == IF i >= 0 THEN i ELSE S.size + i
         IN IF j >= S.size \div 2
            THEN Walked(S, GetBackLoop(S, S.tail, j, Cardinality(DOMAIN S.heap)), TRUE)
            ELSE Walked(S, GetFrontLoop(S, S.head, j, Cardinality(DOMAIN S.heap)), FALSE)

\* get(i) = val : the assignment through the returned reference
Assign(S, ref, val) == List([S.heap EXCEPT ![ref].val = val], S.head, S.tail, S.size)

-----------------------------------------------------------------------------
(* copies, moves, concatenation and comparison: this is S, the argument is T,
   two different objects whose nodes live in the same heap *)

\* the outcome of a call on two lists: *this and the argument, over one heap
Both(h, S, T) ==
    [self |-> List(h, S.head, S.tail, S.size), list |-> List(h, T.head, T.tail, T.size)]

RECURSIVE CopyLoop(_, _, _)
\* while (n->_next) { n = n->_next; _tail->_next = new _node(n->_val,_tail); _tail = _tail->_next; }
CopyLoop(h, n, tl) ==
    IF h[n].next = NULL THEN [heap |-> h, tail |-> tl]
    ELSE LET n1 == h[n].next
             m == New(h)
             h1 == [h EXCEPT ![m] = Node(h[n1].val, tl, NULL), ![tl].next = m]
         IN CopyLoop(h1, n1, m)

\* _copy_ll(n)
copy_ll(h, n) ==
    IF n = NULL THEN [heap |-> h, head |-> NULL, tail |-> NULL]
    ELSE LET m == New(h)
             r == CopyLoop([h EXCEPT ![m] = Node(h[n].val, NULL, NULL)], n, m)
         IN [heap |-> r.heap, head |-> m, tail |-> r.tail]

\* DLList(const DLList& list) that takes the argument's nodes instead of copying them
CopyCtor_shallow(T) == List(T.heap, T.head, T.tail, T.size)

\* DLList(const DLList& list): _copy_ll(list._head); _size = list._size
CopyCtor(T) ==
    LET r == copy_ll(T.heap, T.head)
    IN List(r.heap, r.head, r.tail, T.size)

\* operator=(const DLList& list): _clear(); _copy_ll(list._head); _size = list._size
copy_assign(S, T) ==
    LET h1 == ClearLoop(S.heap, S.head)
        r == copy_ll(h1, T.head)
    IN Both(r.heap, List(r.heap, r.head, r.tail, T.size), T)

\* operator=(DLList&& list) without list._head = list._tail = nullptr
move_assign_keeps_source(S, T) ==
    LET h1 == ClearLoop(S.heap, S.head)
    IN Both(h1, List(h1, T.head, T.tail, T.size), List(h1, T.head, T.tail, T.size))

\* operator=(DLList&& list)
move_assign(S, T) ==
    LET h1 == ClearLoop(S.heap, S.head)
    IN Both(h1, List(h1, T.head, T.tail, T.size), List(h1, NULL, NULL, T.size))

RECURSIVE PlusLoop(_, _, _)
\* for (const T& val : list) *this += val;  with it the const iterator of list
PlusLoop(S, T, it) ==
    IF ~IterNe(it, end(T, "list")) THEN S
    ELSE PlusLoop(push_back(S, S.heap[it.ptr].val), T,
                  PreInc(List(S.heap, T.head, T.tail, T.size), it))

\* operator+=(const DLList& list)
plus_eq_copy(S, T) ==
    LET R == PlusLoop(S, T, begin(T, "list"))
    IN Both(R.heap, R, T)

\* operator=(const DLList& list) when list is *this: _clear() empties the
\* argument too, _copy_ll then copies nothing and _size is assigned to itself
copy_assign_self(S) ==
    LET h1 == ClearLoop(S.heap, S.head)
        S1 == List(h1, NULL, NULL, S.size)
        r == copy_ll(h1, S1.head)
    IN List(r.heap, r.head, r.tail, S1.size)

RECURSIVE PlusSelfLoop(_, _)
\* for (const T& val : list) *this += val;  when list is *this: every push_back
\* gives the node under the iterator a successor; the loop is left when the
\* iterator meets end() or when operator new has no node left (std::bad_alloc)
PlusSelfLoop(S, it) ==
    IF ~IterNe(it, end(S, "list")) THEN [st |-> S, bad_alloc |-> FALSE]
    ELSE IF Free(S.heap) = {} THEN [st |-> S, bad_alloc |-> TRUE]
    ELSE LET S1 == push_back(S, S.heap[it.ptr].val)
         IN PlusSelfLoop(S1, PreInc(S1, it))

\* operator+=(const DLList& list) when list is *this
plus_eq_self(S) == PlusSelfLoop(S, begin(S, "list"))

\* operator+=(DLList&& list)
plus_eq_move(S, T) ==
    IF S.head = NULL
    THEN Both(S.heap, List(S.heap, T.head, T.tail, T.size), List(S.heap, NULL, NULL, T.size))
    ELSE IF T.head # NULL
    THEN LET h1 == [S.heap EXCEPT ![S.tail].next = T.head]
             h2 == [h1 EXCEPT ![T.head].prev = S.tail]
         IN Both(h2, List(h2, S.head, T.tail, S.size + T.size),
                     List(h2, NULL, NULL, T.size))
    ELSE Both(S.heap, S, T)

RECURSIVE EqLoop(_, _, _, _)
\* while (n1) { if (n1->_val != n2->_val) return false; n1 = n1->_next; n2 = n2->_next; }
\* compared counts the evaluations of n1->_val != n2->_val; reading n2->_val
\* when n2 is null has no defined outcome
EqLoop(h, n1, n2, compared) ==
    IF n1 = NULL THEN [ret |-> TRUE, compared |-> compared, undefined |-> FALSE]
    ELSE IF n2 = NULL THEN [ret |-> FALSE, compared |-> compared, undefined |-> TRUE]
    ELSE IF h[n1].val # h[n2].val
    THEN [ret |-> FALSE, compared |-> compared + 1, undefined |-> FALSE]
    ELSE EqLoop(h, h[n1].next, h[n2].next, compared + 1)

\* operator== that compares the elements before the sizes
ListEq_values_first(S, T) ==
    LET r == EqLoop(S.heap, S.head, T.head, 0)
    IN IF ~r.ret THEN r
       ELSE [ret |-> S.size = T.size, compared |-> r.compared, undefined |-> FALSE]

\* operator==(const DLList& list)
ListEq(S, T) ==
    IF S.size # T.size THEN [ret |-> FALSE, compared |-> 0, undefined |-> FALSE]
    ELSE EqLoop(S.heap, S.head, T.head, 0)

\* operator!=(const DLList& list): !(*this == list)
ListNe(S, T) == [ListEq(S, T) EXCEPT !.ret = ~@]

-----------------------------------------------------------------------------
(* TSet<T> of cpp/ds/tset.cpp: an unbalanced binary search tree of nodes with
   parent, left and right pointers; a set is the record [heap, root, size] *)

\* the node addresses and the element values of the tree
TNodes == 1..(MaxLen + 1)
TVals == 1..(MaxLen + 1)

TFreeNode == [used |-> FALSE, val |-> 0, par |-> NULL, left |-> NULL, right |-> NULL]

\* _node(val, par, left, right)
TNode(val, par, left, right) ==
    [used |-> TRUE, val |-> val, par |-> par, left |-> left, right |-> right]

\* a set object over heap h
Set(h, r, sz) == [heap |-> h, root |-> r, size |-> sz]

\* TSet()
TSet_DefaultCtor == Set([n \in TNodes |-> TFreeNode], NULL, 0)

\* operatorLess: a < b
TSet_comp(a, b) == a < b

RECURSIVE LeftMost(_, _)
\* while (n->_left) n = n->_left;
LeftMost(h, n) == IF h[n].left # NULL THEN LeftMost(h, h[n].left) ELSE n

RECURSIVE RightMost(_, _)
\* while (n->_right) n = n->_right;
RightMost(h, n) == IF h[n].right # NULL THEN RightMost(h, h[n].right) ELSE n

RECURSIVE UpRightEdge(_, _)
\* while (n->_par && n->_par->_right == n) n = n->_par;
UpRightEdge(h, n) ==
    IF h[n].par # NULL /\ h[h[n].par].right = n THEN UpRightEdge(h, h[n].par) ELSE n

RECURSIVE UpLeftEdge(_, _)
\* while (n->_par && n->_par->_left == n) n = n->_par;
UpLeftEdge(h, n) ==
    IF h[n].par # NULL /\ h[h[n].par].left = n THEN UpLeftEdge(h, h[n].par) ELSE n

\* _inc(n, r): the node after n in order, the least node from the sentinel
TSet_inc(h, n, r) ==
    IF n = NULL THEN (IF r # NULL THEN LeftMost(h, r) ELSE r)
    ELSE IF h[n].right # NULL THEN LeftMost(h, h[n].right)
    ELSE h[UpRightEdge(h, n)].par

\* _dec(n, r): the node before n in order, the greatest node from the sentinel
TSet_dec(h, n, r) ==
    IF n = NULL THEN (IF r # NULL THEN RightMost(h, r) ELSE r)
    ELSE IF h[n].left # NULL THEN RightMost(h, h[n].left)
    ELSE h[UpLeftEdge(h, n)].par

\* begin(): ++_iter(nullptr, this)
TSet_begin(S) == TSet_inc(S.heap, NULL, S.root)

RECURSIVE FindLoop(_, _, _)
\* while (n) { if (_comp(val,n->_val)) n = n->_left;
\*             else if (_comp(n->_val,val)) n = n->_right; else return n; }
FindLoop(h, n, val) ==
    IF n = NULL THEN NULL
    ELSE IF TSet_comp(val, h[n].val) THEN FindLoop(h, h[n].left, val)
    ELSE IF TSet_comp(h[n].val, val) THEN FindLoop(h, h[n].right, val)
    ELSE n

\* find(val): the node holding val, null for end()
TSet_find(S, val) == FindLoop(S.heap, S.root, val)

RECURSIVE InsertLoop(_, _, _)
\* the descent of insert from node n
InsertLoop(S, n, val) ==
    IF TSet_comp(val, S.heap[n].val)
    THEN IF S.heap[n].left # NULL THEN InsertLoop(S, S.heap[n].left, val)
         ELSE LET m == New(S.heap)
                  h1 == [S.heap EXCEPT ![m] = TNode(val, n, NULL, NULL)]
              IN [st |-> Set([h1 EXCEPT ![n].left = m], S.root, S.size + 1),
                  ptr |-> m, inserted |-> TRUE]
    ELSE IF TSet_comp(S.heap[n].val, val)
    THEN IF S.heap[n].right # NULL THEN InsertLoop(S, S.heap[n].right, val)
         ELSE LET m == New(S.heap)
                  h1 == [S.heap EXCEPT ![m] = TNode(val, n, NULL, NULL)]
              IN [st |-> Set([h1 EXCEPT ![n].right = m], S.root, S.size + 1),
                  ptr |-> m, inserted |-> TRUE]
    ELSE [st |-> S, ptr |-> n, inserted |-> FALSE]

\* insert(val): the set after the call, the node of the returned iterator and
\* the returned bool
TSet_insert(S, val) ==
    IF S.root = NULL
    THEN LET m == New(S.heap)
         IN [st |-> Set([S.heap EXCEPT ![m] = TNode(val, NULL, NULL, NULL)], m, S.size + 1),
             ptr |-> m, inserted |-> TRUE]
    ELSE InsertLoop(S, S.root, val)

\* if (p) { if (p->_left == n) p->_left = m; else p->_right = m; } else _root = m;
Replace(S, p, n, m) ==
    IF p # NULL
    THEN IF S.heap[p].left = n
         THEN Set([S.heap EXCEPT ![p].left = m], S.root, S.size)
         ELSE Set([S.heap EXCEPT ![p].right = m], S.root, S.size)
    ELSE Set(S.heap, m, S.size)

\* x->_par = v; when x is null the store goes through a null pointer: it has no
\* defined outcome, and the set is carried on as if the store were lost
SetPar(r, x, v) ==
    IF x = NULL THEN [r EXCEPT !.undefined = TRUE]
    ELSE [r EXCEPT !.st.heap[x].par = v]

\* _erase<false>(n), the instance erase calls: the set after the call, and
\* whether a store through a null pointer was made on the way
TSet_erase_node(S, n) ==
    LET h == S.heap
        p == h[n].par
        unlinked ==
            IF h[n].left = NULL
            THEN LET h1 == IF h[n].right # NULL
                           THEN [h EXCEPT ![h[n].right].par = p] ELSE h
                 IN [st |-> Replace(Set(h1, S.root, S.size), p, n, h[n].right),
                     undefined |-> FALSE]
            ELSE IF h[n].right = NULL
            THEN LET h1 == [h EXCEPT ![h[n].left].par = p]
                 IN [st |-> Replace(Set(h1, S.root, S.size), p, n, h[n].left),
                     undefined |-> FALSE]
            ELSE LET m == RightMost(h, h[n].left)
                     h1 == IF h[m].par = n
                           THEN [h EXCEPT ![n].left = h[m].left]
                           ELSE [h EXCEPT ![h[m].par].right = h[m].left]
                     h2 == IF h1[m].left # NULL
                           THEN [h1 EXCEPT ![h1[m].left].par = h1[m].par] ELSE h1
                     h3 == [h2 EXCEPT ![m].par = p]
                     h4 == [h3 EXCEPT ![m].left = h3[n].left]
                     h5 == [h4 EXCEPT ![m].right = h4[n].right]
                     r0 == [st |-> Set(h5, S.root, S.size), undefined |-> FALSE]
                     r1 == SetPar(r0, h5[n].left, m)
                     r2 == SetPar(r1, h5[n].right, m)
                 IN [r2 EXCEPT !.st = Replace(r2.st, p, n, m)]
    IN [st |-> Set([unlinked.st.heap EXCEPT ![n] = TFreeNode],
                   unlinked.st.root, unlinked.st.size - 1),
        undefined |-> unlinked.undefined]

\* erase(val): find(val); false when it is end(), else _erase and true
TSet_erase(S, val) ==
    LET n == TSet_find(S, val)
    IN IF n = NULL THEN [st |-> S, ret |-> FALSE, undefined |-> FALSE]
       ELSE LET r == TSet_erase_node(S, n)
            IN [st |-> r.st, ret |-> TRUE, undefined |-> r.undefined]

-----------------------------------------------------------------------------
(* DynArray<T> of cpp/ds/dynarray.cpp: an array is the record [arr, alloc]
   with arr the _len elements in use (no call reads a slot beyond them) and
   alloc the number of slots allocated *)

\* the element value pushed, inserted and filled in: no call modelled compares
\* elements, and the arrays that are sliced hold their own indexes
ArrVals == {1}

Array(arr, alloc) == [arr |-> arr, alloc |-> alloc]

\* DynArray()
DynArray_DefaultCtor == Array(<<>>, 0)

\* resizerRatio<n,d>(l)
resizerRatio(n, d, l) == ((1 + l) * n) \div d

\* a resizer that gives back the capacity it was given
resizer_same(l) == l

\* the default _resizer: resizerRatio<9,8>
resizer(l) == resizerRatio(9, 8, l)

\* _grow(_alloc_new): CHECK_THROW(_alloc_new > _alloc), then move to a new block
DynArray_grow_to(a, alloc_new) ==
    IF ~(alloc_new > a.alloc) THEN [thrown |-> TRUE, st |-> a]
    ELSE [thrown |-> FALSE, st |-> Array(a.arr, alloc_new)]

\* _grow(): _grow(_resizer(_alloc))
DynArray_grow(a) == DynArray_grow_to(a, resizer(a.alloc))

\* the smaller of two numbers (std::min)
Min(x, y) == IF x < y THEN x ELSE y

\* _resize(_alloc_new)
DynArray_resize_to(a, alloc_new) ==
    IF alloc_new = 0 THEN [thrown |-> FALSE, st |-> Array(<<>>, 0)]
    ELSE IF alloc_new < a.alloc
    THEN [thrown |-> FALSE,
          st |-> Array(SubSeq(a.arr, 1, Min(Len(a.arr), alloc_new)), alloc_new)]
    ELSE IF alloc_new > a.alloc THEN DynArray_grow_to(a, alloc_new)
    ELSE [thrown |-> FALSE, st |-> a]

\* DynArray(siz, val): CHECK_THROW(siz >= 0); every size of the model is below 1LL << 48
DynArray_FillCtor(siz, val) ==
    IF ~(siz >= 0) THEN [thrown |-> TRUE, st |-> DynArray_DefaultCtor]
    ELSE [thrown |-> FALSE, st |-> Array([k \in 1..siz |-> val], siz)]

\* push(val): if (_len == _alloc) _grow(); _arr[_len++] = val
DynArray_push(a, val) ==
    LET g == IF Len(a.arr) = a.alloc THEN DynArray_grow(a) ELSE [thrown |-> FALSE, st |-> a]
    IN IF g.thrown THEN g
       ELSE [thrown |-> FALSE, st |-> Array(Append(g.st.arr, val), g.st.alloc)]

\* pop(): CHECK_THROW(_len > 0); return std::move(_arr[--_len])
DynArray_pop(a) ==
    IF ~(Len(a.arr) > 0) THEN [thrown |-> TRUE, st |-> a]
    ELSE [thrown |-> FALSE, st |-> Array(SubSeq(a.arr, 1, Len(a.arr) - 1), a.alloc)]

\* clear(): _resize(0)
DynArray_clear(a) == DynArray_resize_to(a, 0)

\* shrink(): _resize(_len)
DynArray_shrink(a) == DynArray_resize_to(a, Len(a.arr))

\* realloc(siz): CHECK_THROW(siz >= 0); _resize(siz)
DynArray_realloc(a, siz) ==
    IF ~(siz >= 0) THEN [thrown |-> TRUE, st |-> a]
    ELSE DynArray_resize_to(a, siz)

\* resize(siz, val)
DynArray_resize(a, siz, val) ==
    IF ~(siz >= 0) THEN [thrown |-> TRUE, st |-> a]
    ELSE IF siz < Len(a.arr)
    THEN [thrown |-> FALSE, st |-> Array(SubSeq(a.arr, 1, siz), a.alloc)]
    ELSE LET g == IF siz > a.alloc THEN DynArray_resize_to(a, siz)
                  ELSE [thrown |-> FALSE, st |-> a]
         IN IF g.thrown THEN g
            ELSE [thrown |-> FALSE,
                  st |-> Array(g.st.arr \o [k \in 1..(siz - Len(g.st.arr)) |-> val],
                               g.st.alloc)]

\* insert(i, val): CHECK_THROW(i >= -_len && i <= _len); j = i >= 0 ? i : _len + i;
\* if (_len == _alloc) _grow(); shift right from j; _arr[j] = val
DynArray_insert(a, i, val) ==
    IF ~(i >= -Len(a.arr) /\ i <= Len(a.arr)) THEN [thrown |-> TRUE, st |-> a]
    ELSE LET j == IF i >= 0 THEN i ELSE Len(a.arr) + i
             g == IF Len(a.arr) = a.alloc THEN DynArray_grow(a)
                  ELSE [thrown |-> FALSE, st |-> a]
         IN IF g.thrown THEN g
            ELSE [thrown |-> FALSE,
                  st |-> Array(SubSeq(g.st.arr, 1, j) \o <<val>>
                                  \o SubSeq(g.st.arr, j + 1, Len(g.st.arr)),
                               g.st.alloc)]

\* erase(i): CHECK_THROW(i >= -_len && i < _len); j = i >= 0 ? i : _len + i;
\* --_len; shift left onto j
DynArray_erase(a, i) ==
    IF ~(i >= -Len(a.arr) /\ i < Len(a.arr)) THEN [thrown |-> TRUE, st |-> a]
    ELSE LET j == IF i >= 0 THEN i ELSE Len(a.arr) + i
         IN [thrown |-> FALSE,
             st |-> Array(SubSeq(a.arr, 1, j) \o SubSeq(a.arr, j + 2, Len(a.arr)),
                          a.alloc)]

\* the quotient of int64_t division, which rounds toward zero
Quot(x, y) == IF x >= 0 THEN x \div y ELSE 0 - ((0 - x) \div y)

RECURSIVE SliceLoop(_, _, _, _, _)
\* while (beg < end) { *(p++) = _arr[beg]; beg += step; }
SliceLoop(arr, beg, end_, step, ret) ==
    IF beg < end_ THEN SliceLoop(arr, beg + step, end_, step, Append(ret, arr[beg + 1]))
    ELSE ret

\* slice(beg, end, step) of DynArray: the returned array, or thrown when a
\* CHECK_THROW of slice or of the constructor of the returned array fails
DynArray_slice(a, beg, end_, step) ==
    IF ~(step >= 1) THEN [thrown |-> TRUE, st |-> DynArray_DefaultCtor]
    ELSE LET len == Len(a.arr)
             beg1 == IF beg >= 0 THEN beg ELSE len + beg
             end1 == IF end_ >= 0 THEN end_ ELSE len + end_
             beg2 == IF beg1 < 0 THEN 0 ELSE beg1
             end2 == IF end1 > len THEN len ELSE end1
             ret == DynArray_FillCtor(Quot(end2 - beg2 + (step - 1), step), 0)
         IN IF ret.thrown THEN ret
            ELSE [thrown |-> FALSE,
                  st |-> Array(SliceLoop(a.arr, beg2, end2, step, <<>>), ret.st.alloc)]

\* slice(beg, end, step) of FixArray (cpp/ds/fixarray.cpp): the elements of the
\* returned array, or thrown
FixArray_slice(arr, beg, end_, step) ==
    IF ~(step >= 1) THEN [thrown |-> TRUE, arr |-> <<>>]
    ELSE LET len == Len(arr)
             beg1 == IF beg >= 0 THEN beg ELSE len + beg
             end1 == IF end_ >= 0 THEN end_ ELSE len + end_
             beg2 == IF beg1 < 0 THEN 0 ELSE beg1
             end2 == IF end1 > len THEN len ELSE end1
             siz == Quot(end2 - beg2 + (step - 1), step)
         IN IF ~(siz >= 0) THEN [thrown |-> TRUE, arr |-> <<>>]
            ELSE [thrown |-> FALSE, arr |-> SliceLoop(arr, beg2, end2, step, <<>>)]

-----------------------------------------------------------------------------
(* the program state *)

VARIABLES
    heap,   \* the nodes
    head,   \* list a: _head
    tail,   \* list a: _tail
    size,   \* list a: _size
    itr,    \* an iterator of list a that the caller holds
    op,     \* the last call: its name, arguments, outcome and returned value
    other,  \* list b, an object that lives from its construction to its destruction
    tset,   \* a TSet: its nodes, _root and _size
    darr,   \* a DynArray: its elements in use and _alloc
    sliced  \* the elements of the array returned by the last slice

vars == <<heap, head, tail, size, itr, op, other, tset, darr, sliced>>

\* the variables of the other containers, which a call on a list leaves alone
rest == <<tset, darr, sliced>>

\* no TSet and no DynArray has been touched
RestInit ==
    /\ tset = TSet_DefaultCtor
    /\ darr = DynArray_DefaultCtor
    /\ sliced = <<>>

\* list a
A == List(heap, head, tail, size)

Dead == [alive |-> FALSE, head |-> NULL, tail |-> NULL, size |-> 0]

Call(name, thrown, pos, val, ret, comp) ==
    [name |-> name, thrown |-> thrown, pos |-> pos, val |-> val, ret |-> ret, comp |-> comp]

RECURSIVE Walk(_, _, _)
\* the nodes met by following next-links from n, at most k of them
Walk(h, n, k) ==
    IF n = NULL \/ k = 0 THEN <<>> ELSE <<n>> \o Walk(h, h[n].next, k - 1)

\* the nodes of the chain that starts at hd, in order
Chain(h, hd) == Walk(h, hd, Cardinality(DOMAIN h) + 1)

SeqSet(s) == {s[k] : k \in 1..Len(s)}

\* the positions an iterator of list a can be at: its nodes and the sentinel
Positions == SeqSet(Chain(heap, head)) \cup {NULL}

\* the caller drops an iterator whose node was deleted and holds end() instead
Kept(h, i) == IF i.ptr # NULL /\ ~h[i.ptr].used THEN Iter(NULL, i.list) ELSE i

Commit(T) ==
    /\ heap' = T.heap
    /\ head' = T.head
    /\ tail' = T.tail
    /\ size' = T.size
    /\ itr' = Kept(T.heap, itr)
    /\ UNCHANGED <<other, rest>>

CanGrow == size < MaxLen /\ Free(heap) # {}

ValSeqs == UNION {[1..k -> Vals] : k \in 0..MaxLen}

Init ==
    /\ \E S \in {DefaultCtor(EmptyHeap)}
                \cup {FillCtor(EmptyHeap, n, v) : n \in 0..MaxLen, v \in Vals}
                \cup {InitListCtor(EmptyHeap, s) : s \in ValSeqs} :
          /\ heap = S.heap
          /\ head = S.head
          /\ tail = S.tail
          /\ size = S.size
    /\ itr = Iter(NULL, "a")
    /\ op = Call("ctor", FALSE, NULL, 0, NULL, "")
    /\ other = Dead
    /\ RestInit

PushFront(v) ==
    /\ CanGrow
    /\ Commit(push_front(A, v))
    /\ op' = Call("push_front", FALSE, NULL, v, NULL, "")

PushBack(v) ==
    /\ CanGrow
    /\ Commit(push_back(A, v))
    /\ op' = Call("push_back", FALSE, NULL, v, NULL, "")

PopFront ==
    LET r == pop_front(A)
    IN /\ Commit(r.st)
       /\ op' = Call("pop_front", r.thrown, NULL, 0, r.ret, "")

PopBack ==
    LET r == pop_back(A)
    IN /\ Commit(r.st)
       /\ op' = Call("pop_back", r.thrown, NULL, 0, r.ret, "")

Insert(p, v) ==
    /\ CanGrow
    /\ p \in Positions
    /\ LET r == insert(A, "a", Iter(p, "a"), v)
       IN /\ Commit(r.st)
          /\ op' = Call("insert", FALSE, p, v, r.ret.ptr, "")

Erase(p) ==
    /\ p \in Positions
    /\ LET r == erase(A, "a", Iter(p, "a"))
       IN /\ Commit(r.st)
          /\ op' = Call("erase", r.thrown, p, 0, r.ret.ptr, "")

Reverse ==
    /\ Commit(reverse(A))
    /\ op' = Call("reverse", FALSE, NULL, 0, NULL, "")

Sort(c) ==
    /\ Commit(sort(A, c))
    /\ op' = Call("sort", FALSE, NULL, 0, NULL, c)

Clear ==
    /\ Commit(clear(A))
    /\ op' = Call("clear", FALSE, NULL, 0, NULL, "")

\* ++itr
ItrInc ==
    /\ itr' = PreInc(A, itr)
    /\ op' = Call("++", FALSE, itr.ptr, 0, itr'.ptr, "")
    /\ UNCHANGED <<heap, head, tail, size, other, rest>>

\* --itr
ItrDec ==
    /\ itr' = PreDec(A, itr)
    /\ op' = Call("--", FALSE, itr.ptr, 0, itr'.ptr, "")
    /\ UNCHANGED <<heap, head, tail, size, other, rest>>

\* itr++
ItrPostInc ==
    LET r == PostInc(A, itr)
    IN /\ itr' = r.it
       /\ op' = Call("++", FALSE, r.ret.ptr, 0, r.it.ptr, "")
       /\ UNCHANGED <<heap, head, tail, size, other, rest>>

\* itr--
ItrPostDec ==
    LET r == PostDec(A, itr)
    IN /\ itr' = r.it
       /\ op' = Call("--", FALSE, r.ret.ptr, 0, r.it.ptr, "")
       /\ UNCHANGED <<heap, head, tail, size, other, rest>>

\* the values of the nodes s, in order
ValsOf(h, s) == [k \in 1..Len(s) |-> h[s[k]].val]

\* the number of nodes the loop will insert
Tens(h, s) == Cardinality({k \in 1..Len(s) : h[s[k]].val % Ten = 0})

\* the insert-while-iterating loop, run from begin() to end()
InsertAfterTens ==
    /\ size + Tens(heap, Chain(heap, head)) <= MaxLen
    /\ Cardinality(Free(heap)) >= Tens(heap, Chain(heap, head))
    /\ Commit(TensLoop(A, "a", begin(A, "a"), <<>>).st)
    /\ op' = Call("loop", FALSE, NULL, 0, NULL, "")

Next ==
    \/ \E v \in Vals : PushFront(v)
    \/ \E v \in Vals : PushBack(v)
    \/ PopFront
    \/ PopBack
    \/ \E p \in Ptrs, v \in Vals : Insert(p, v)
    \/ \E p \in Ptrs : Erase(p)
    \/ Reverse
    \/ \E c \in Comps : Sort(c)
    \/ Clear
    \/ ItrInc
    \/ ItrDec
    \/ ItrPostInc
    \/ ItrPostDec
    \/ InsertAfterTens

Spec == Init /\ [][Next]_vars

-----------------------------------------------------------------------------
(* list b: DLList b(std::move(a)); ... ; b goes out of scope *)

\* DLList(DLList&& list): b takes a's head, tail and size; a's head and tail are reset
MoveCtor ==
    /\ ~other.alive
    /\ itr.ptr = NULL
    /\ other' = [alive |-> TRUE, head |-> head, tail |-> tail, size |-> size]
    /\ head' = NULL
    /\ tail' = NULL
    /\ op' = Call("move", FALSE, NULL, 0, NULL, "")
    /\ UNCHANGED <<heap, size, itr, rest>>

\* ~DLList(): _clear()
OtherDtor ==
    /\ other.alive
    /\ heap' = ClearLoop(heap, other.head)
    /\ other' = Dead
    /\ op' = Call("dtor", FALSE, NULL, 0, NULL, "")
    /\ UNCHANGED <<head, tail, size, itr, rest>>

NextMove == Next \/ MoveCtor \/ OtherDtor

SpecMove == Init /\ [][NextMove]_vars

-----------------------------------------------------------------------------
(* element access on list a: get(i), get(i) = val, *itr *)

\* the indices passed to get: every accepted one, and rejected ones on both sides
Indices == (0 - MaxLen - 1)..MaxLen

\* a.get(i)
Get(i) ==
    LET r == get(A, i)
    IN /\ \E ref \in IF r.undefined THEN Ptrs ELSE {r.ref} :
             op' = Call("get", r.thrown, i, 0, ref, "")
       /\ UNCHANGED <<heap, head, tail, size, itr, other, rest>>

\* a.get(i) = v
GetAssign(i, v) ==
    LET r == get(A, i)
    IN /\ ~r.undefined
       /\ heap' = IF r.thrown THEN heap ELSE Assign(A, r.ref, v).heap
       /\ op' = Call("get=", r.thrown, i, v, r.ref, "")
       /\ UNCHANGED <<head, tail, size, itr, other, rest>>

\* *itr
DerefItr ==
    LET r == Deref(A, itr)
    IN /\ op' = Call("*", r.thrown, itr.ptr, IF r.thrown THEN 0 ELSE heap[r.ref].val,
                     r.ref, "")
       /\ UNCHANGED <<heap, head, tail, size, itr, other, rest>>

\* the calls that can be rejected, the ones that read or write an element, and
\* the move of a into a second list b that leaves a as a moved-from list
NextAccess ==
    \/ PopFront
    \/ PopBack
    \/ \E p \in Ptrs : Erase(p)
    \/ ItrInc
    \/ \E i \in Indices : Get(i)
    \/ \E i \in Indices, v \in Vals : GetAssign(i, v)
    \/ DerefItr
    \/ MoveCtor
    \/ OtherDtor

SpecAccess == Init /\ [][NextAccess]_vars

-----------------------------------------------------------------------------
(* two lists a and b: construction of b, copies, moves, += and == *)

\* the node addresses when two lists are built
PairNodes == 1..(MaxLen + 1)

\* the element values of the two lists
PairVals == {9, 10}

PairSeqs == UNION {[1..k -> PairVals] : k \in 0..(MaxLen - 1)}

\* list b
B == List(heap, other.head, other.tail, other.size)

\* DLList a{...} over a heap with room for b; b is not constructed yet
InitPair ==
    /\ \E s \in PairSeqs :
          \E S \in {InitListCtor([n \in PairNodes |-> FreeNode], s)} :
             /\ heap = S.heap
             /\ head = S.head
             /\ tail = S.tail
             /\ size = S.size
    /\ itr = Iter(NULL, "a")
    /\ op = Call("ctor", FALSE, NULL, 0, NULL, "")
    /\ other = Dead
    /\ RestInit

\* an object with the fields of list T
Obj(T) == [alive |-> TRUE, head |-> T.head, tail |-> T.tail, size |-> T.size]

\* list a becomes Sa and list b becomes Sb, both over the heap of Sa
CommitPair(Sa, Sb) ==
    /\ heap' = Sa.heap
    /\ head' = Sa.head
    /\ tail' = Sa.tail
    /\ size' = Sa.size
    /\ other' = Obj(Sb)
    /\ UNCHANGED <<itr, rest>>

\* the lengths of the two chains together
PairLen == Len(Chain(heap, head)) + Len(Chain(heap, other.head))

\* DLList b{...}
CtorB(s) ==
    /\ ~other.alive
    /\ Cardinality(Free(heap)) >= Len(s)
    /\ LET T == InitListCtor(heap, s) IN CommitPair(List(T.heap, head, tail, size), T)
    /\ op' = Call("b{}", FALSE, NULL, 0, NULL, "")

\* DLList b(a)
CopyCtorB ==
    /\ ~other.alive
    /\ Cardinality(Free(heap)) >= Len(Chain(heap, head))
    /\ LET T == CopyCtor(A) IN CommitPair(List(T.heap, head, tail, size), T)
    /\ op' = Call("b(a)", FALSE, NULL, 0, NULL, "")

\* a = b
CopyAssignAB ==
    /\ other.alive
    /\ Cardinality(Free(ClearLoop(heap, head))) >= Len(Chain(heap, other.head))
    /\ LET r == copy_assign(A, B) IN CommitPair(r.self, r.list)
    /\ op' = Call("a=b", FALSE, NULL, 0, NULL, "")

\* a = std::move(b)
MoveAssignAB ==
    /\ other.alive
    /\ LET r == move_assign(A, B) IN CommitPair(r.self, r.list)
    /\ op' = Call("a=move(b)", FALSE, NULL, 0, NULL, "")

\* a += b
PlusEqCopy ==
    /\ other.alive
    /\ PairLen <= MaxLen
    /\ size + other.size <= MaxLen
    /\ Cardinality(Free(heap)) >= Len(Chain(heap, other.head))
    /\ LET r == plus_eq_copy(A, B) IN CommitPair(r.self, r.list)
    /\ op' = Call("a+=b", FALSE, NULL, 0, NULL, "")

\* a += std::move(b)
PlusEqMove ==
    /\ other.alive
    /\ PairLen <= MaxLen
    /\ size + other.size <= MaxLen
    /\ LET r == plus_eq_move(A, B) IN CommitPair(r.self, r.list)
    /\ op' = Call("a+=move(b)", FALSE, NULL, 0, NULL, "")

\* a bool as the call record holds it: true is 1, false is 0
Bit(b) == IF b THEN 1 ELSE 0

\* a == b; val records the number of element comparisons made
Equals ==
    /\ other.alive
    /\ LET r == ListEq(A, B)
       IN \E ret \in IF r.undefined THEN BOOLEAN ELSE {r.ret} :
             op' = Call("a==b", FALSE, NULL, r.compared, Bit(ret), "")
    /\ UNCHANGED <<heap, head, tail, size, itr, other, rest>>

\* a != b
NotEquals ==
    /\ other.alive
    /\ LET r == ListNe(A, B)
       IN \E ret \in IF r.undefined THEN BOOLEAN ELSE {r.ret} :
             op' = Call("a!=b", FALSE, NULL, r.compared, Bit(ret), "")
    /\ UNCHANGED <<heap, head, tail, size, itr, other, rest>>

\* b.pop_front()
PopFrontB ==
    /\ other.alive
    /\ LET r == pop_front(B)
       IN /\ CommitPair(List(r.st.heap, head, tail, size), r.st)
          /\ op' = Call("b.pop_front", r.thrown, NULL, 0, r.ret, "")

NextPair ==
    \/ \E s \in PairSeqs : CtorB(s)
    \/ CopyCtorB
    \/ MoveCtor
    \/ CopyAssignAB
    \/ MoveAssignAB
    \/ PlusEqCopy
    \/ PlusEqMove
    \/ Equals
    \/ NotEquals
    \/ \E v \in PairVals : PushBack(v)
    \/ PopFrontB
    \/ OtherDtor

SpecPair == InitPair /\ [][NextPair]_vars

-----------------------------------------------------------------------------
(* the sized constructor with rejected sizes, and a list as its own argument *)

\* the sizes passed to DLList(siz, val): -1, 0..MaxLen + 1, 2^48 - 1, 2^48, 2^48 + 1
Sizes ==
    {Int64(0 - 1, Word - 1), Int64(Word - 1, Word - 1), Int64(Word, 0), Int64(Word, 1)}
    \cup {Int64(0, n) : n \in 0..(MaxLen + 1)}

\* DLList b(siz, v); pos and ret record the two words of siz
FillCtorB(siz, v) ==
    /\ ~other.alive
    /\ IF ~FillChecks(siz)
       THEN /\ op' = Call("b(n,v)", TRUE, siz.hi, v, siz.lo, "")
            /\ UNCHANGED <<heap, head, tail, size, itr, other, rest>>
       ELSE LET r == FillCtorAlloc(heap, siz, v)
            IN /\ heap' = r.st.heap
               /\ other' = IF r.bad_alloc THEN Dead ELSE Obj(r.st)
               /\ op' = Call("b(n,v)", FALSE, siz.hi, v, siz.lo,
                             IF r.bad_alloc THEN "bad_alloc" ELSE "")
               /\ UNCHANGED <<head, tail, size, itr, rest>>

\* a = a
CopyAssignAA ==
    /\ LET S == copy_assign_self(A)
       IN /\ heap' = S.heap
          /\ head' = S.head
          /\ tail' = S.tail
          /\ size' = S.size
    /\ op' = Call("a=a", FALSE, NULL, 0, NULL, "")
    /\ UNCHANGED <<itr, other, rest>>

\* a += a
PlusEqSelf ==
    /\ LET r == plus_eq_self(A)
       IN /\ heap' = r.st.heap
          /\ head' = r.st.head
          /\ tail' = r.st.tail
          /\ size' = r.st.size
          /\ op' = Call("a+=a", FALSE, NULL, 0, NULL,
                        IF r.bad_alloc THEN "bad_alloc" ELSE "")
    /\ UNCHANGED <<itr, other, rest>>

NextSelf ==
    \/ \E siz \in Sizes, v \in PairVals : FillCtorB(siz, v)
    \/ \E s \in PairSeqs : CtorB(s)
    \/ CopyAssignAB
    \/ CopyAssignAA
    \/ PlusEqCopy
    \/ PlusEqSelf

SpecSelf == InitPair /\ [][NextSelf]_vars

-----------------------------------------------------------------------------
(* the other containers: no list is touched *)

lists == <<heap, head, tail, size, itr, other>>

\* the list variables while the program works on another container
ListsInit ==
    /\ heap = EmptyHeap
    /\ head = NULL
    /\ tail = NULL
    /\ size = 0
    /\ itr = Iter(NULL, "a")
    /\ other = Dead

-----------------------------------------------------------------------------
(* a TSet: insert(val) and erase(val) from the empty set *)

\* TSet<int> s;
InitTSet ==
    /\ ListsInit
    /\ tset = TSet_DefaultCtor
    /\ darr = DynArray_DefaultCtor
    /\ sliced = <<>>
    /\ op = Call("ctor", FALSE, NULL, 0, NULL, "")

\* a store through a null pointer may have ended the process
Running == op.comp # "killed"

\* s.insert(v); ret records the returned bool
TSetInsert(v) ==
    /\ Running
    /\ Free(tset.heap) # {}
    /\ LET r == TSet_insert(tset, v)
       IN /\ tset' = r.st
          /\ op' = Call("insert", FALSE, r.ptr, v, Bit(r.inserted), "")
    /\ UNCHANGED <<lists, darr, sliced>>

\* s.erase(v); a call that stores through a null pointer either ends the
\* process there, the set as it was, or goes on as if the store were lost
TSetErase(v) ==
    /\ Running
    /\ LET r == TSet_erase(tset, v)
       IN \E outcome \in IF r.undefined THEN {"killed", "undefined"} ELSE {""} :
             /\ tset' = IF outcome = "killed" THEN tset ELSE r.st
             /\ op' = Call("erase", FALSE, TSet_find(tset, v), v, Bit(r.ret), outcome)
    /\ UNCHANGED <<lists, darr, sliced>>

NextTSet ==
    \/ \E v \in TVals : TSetInsert(v)
    \/ \E v \in TVals : TSetErase(v)

SpecTSet == InitTSet /\ [][NextTSet]_vars

-----------------------------------------------------------------------------
(* a DynArray: the calls that change its size or its allocated space *)

\* the most slots the model allocates
MaxAlloc == 3 * MaxLen + 1

\* the sizes passed to resize and realloc, a rejected one among them
ArrSizes == (0 - 1)..MaxAlloc

\* the indices passed to insert and erase
ArrIndices == (0 - MaxAlloc - 1)..(MaxAlloc + 1)

\* DynArray<int> a;
InitDynArray ==
    /\ ListsInit
    /\ tset = TSet_DefaultCtor
    /\ darr = DynArray_DefaultCtor
    /\ sliced = <<>>
    /\ op = Call("ctor", FALSE, NULL, 0, NULL, "")

\* the call has outcome r: the array after it, and whether it threw; pos
\* records the index passed to insert and erase
ArrCommit(name, i, r) ==
    /\ r.st.alloc <= MaxAlloc
    /\ darr' = r.st
    /\ op' = Call(name, r.thrown, i, 0, NULL, "")
    /\ UNCHANGED <<lists, tset, sliced>>

ArrPush(v) == ArrCommit("push", 0, DynArray_push(darr, v))

ArrPop == ArrCommit("pop", 0, DynArray_pop(darr))

ArrInsert(i, v) == ArrCommit("insert", i, DynArray_insert(darr, i, v))

ArrErase(i) == ArrCommit("erase", i, DynArray_erase(darr, i))

ArrResize(siz, v) == ArrCommit("resize", 0, DynArray_resize(darr, siz, v))

ArrRealloc(siz) == ArrCommit("realloc", 0, DynArray_realloc(darr, siz))

ArrShrink == ArrCommit("shrink", 0, DynArray_shrink(darr))

ArrClear == ArrCommit("clear", 0, DynArray_clear(darr))

NextDynArray ==
    \/ \E v \in ArrVals : ArrPush(v)
    \/ ArrPop
    \/ \E i \in ArrIndices, v \in ArrVals : ArrInsert(i, v)
    \/ \E i \in ArrIndices : ArrErase(i)
    \/ \E siz \in ArrSizes, v \in ArrVals : ArrResize(siz, v)
    \/ \E siz \in ArrSizes : ArrRealloc(siz)
    \/ ArrShrink
    \/ ArrClear

SpecDynArray == InitDynArray /\ [][NextDynArray]_vars

-----------------------------------------------------------------------------
(* slice(beg, end, step) on the arrays {0, 1, ..., n-1} *)

\* the longest array sliced
SliceLen == MaxLen

\* beg and end: inside the array, beyond both of its ends, and negative
SliceArgs == (0 - SliceLen - 1)..(SliceLen + 1)

\* step: the rejected 0 and -1, and steps up to the length of the array
SliceSteps == (0 - 1)..SliceLen

\* DynArray<int> a{0, 1, ..., n-1};
InitSlice ==
    /\ ListsInit
    /\ tset = TSet_DefaultCtor
    /\ \E n \in 0..SliceLen : darr = Array([k \in 1..n |-> k - 1], n)
    /\ sliced = <<>>
    /\ op = Call("ctor", FALSE, NULL, 0, NULL, "")

\* b = a.slice(beg, end, step); pos, val and ret record beg, end and step
Slice(beg, end_, step) ==
    /\ LET r == DynArray_slice(darr, beg, end_, step)
       IN /\ sliced' = r.st.arr
          /\ op' = Call("slice", r.thrown, beg, end_, step, "")
    /\ UNCHANGED <<lists, tset, darr>>

NextSlice == \E beg \in SliceArgs, end_ \in SliceArgs, step \in SliceSteps : Slice(beg, end_, step)

SpecSlice == InitSlice /\ [][NextSlice]_vars

-----------------------------------------------------------------------------
(* what the properties below read off a state *)

RECURSIVE WalkBack(_, _, _)
\* the nodes met by following prev-links from n, at most k of them
WalkBack(h, n, k) ==
    IF n = NULL \/ k = 0 THEN <<>> ELSE <<n>> \o WalkBack(h, h[n].prev, k - 1)

ChainBack(h, tl) == WalkBack(h, tl, Cardinality(DOMAIN h) + 1)

Live(h) == {n \in DOMAIN h : h[n].used}

\* the index of node x in the sequence s of distinct nodes (0 when absent)
Pos(s, x) == IF x \in SeqSet(s) THEN CHOOSE k \in 1..Len(s) : s[k] = x ELSE 0

RECURSIVE TraverseCount(_, _, _, _)
\* the number of ++ steps that take the iterator i to end(), at most k
TraverseCount(S, l, i, k) ==
    IF ~IterNe(i, end(S, l)) \/ k = 0 THEN 0
    ELSE 1 + TraverseCount(S, l, PreInc(S, i), k - 1)

\* the chain of a list is well formed
WellFormed(S) ==
    IF S.size = 0
    THEN S.head = NULL /\ S.tail = NULL
    ELSE /\ S.head # NULL
         /\ S.tail # NULL
         /\ S.heap[S.head].prev = NULL
         /\ S.heap[S.tail].next = NULL
         /\ \A a, b \in Live(S.heap) :
                (S.heap[a].next = b) <=> (S.heap[b].prev = a)
         /\ \A fwd \in {Chain(S.heap, S.head)}, bwd \in {ChainBack(S.heap, S.tail)} :
                /\ Len(fwd) <= Cardinality(Live(S.heap))
                /\ fwd[Len(fwd)] = S.tail
                /\ Len(bwd) <= Cardinality(Live(S.heap))
                /\ bwd[Len(bwd)] = S.head

-----------------------------------------------------------------------------
(* C1..C10 *)

\* C1: in every state reached by push_front, push_back, pop_front, pop_back,
\* insert, erase, reverse, sort and clear from a constructed list the chain is
\* well formed: with count 0 head and tail are absent; otherwise head has no
\* previous node, tail has no next node, a's next is b iff b's previous is a,
\* the walk along next from head ends at tail and the walk along prev from
\* tail ends at head.
C1_WellFormedChain == WellFormed(A)

\* a reverse has acted on a full list
C1_Witness ==
    /\ op.name = "reverse"
    /\ size = MaxLen

\* C2: after any sequence of push, pop, insert and erase calls, rejected ones
\* included, size() is the number of nodes an iterator visits from begin()
\* until it equals end().
C2_SizeIsTraversalCount ==
    size = TraverseCount(A, "a", begin(A, "a"), Cardinality(Nodes) + 1)

\* an erase has acted and two nodes are left to count
C2_Witness ==
    /\ op.name = "erase"
    /\ ~op.thrown
    /\ size = 2


\* the number of times v occurs in the sequence s
Count(s, v) == Cardinality({k \in 1..Len(s) : s[k] = v})

\* neither comp(x, y) nor comp(y, x)
Tie(c, x, y) == ~Comp(c, x, y) /\ ~Comp(c, y, x)

\* C3: sort(comp) is stable: two nodes whose values tie under comp keep their
\* order; a merge step takes the right node only when comp(right, left) holds,
\* so never on a tie.
C3_SortIsStable ==
    [][op'.name = "sort" =>
        \A pre \in {Chain(heap, head)}, post \in {Chain(heap', head')}, c \in {op'.comp} :
           \A x, y \in SeqSet(pre) :
              /\ TakeRight(heap, c, x, y) => Comp(c, heap[y].val, heap[x].val)
              /\ (Pos(pre, x) < Pos(pre, y) /\ Tie(c, heap[x].val, heap[y].val))
                     => /\ Pos(post, x) # 0
                        /\ Pos(post, x) < Pos(post, y)
                        /\ ~TakeRight(heap, c, x, y)]_vars

\* a sort by tens has acted and left 11 before 10, the order they came in
C3_Witness ==
    /\ op.name = "sort"
    /\ op.comp = "tens"
    /\ \E x \in Nodes : /\ heap[x].used
                        /\ heap[x].val = 11
                        /\ heap[x].next # NULL
                        /\ heap[heap[x].next].val = 10

\* C4: after sort(comp) the list holds a permutation of its former values with
\* comp(value[j], value[i]) false for all i < j: ascending for a < b, descending
\* for a > b; sorting the empty list changes nothing.
C4_SortOrdersAPermutation ==
    [][op'.name = "sort" =>
        \A pre \in {ValsOf(heap, Chain(heap, head))},
           post \in {ValsOf(heap', Chain(heap', head'))}, c \in {op'.comp} :
           /\ Len(post) = Len(pre)
           /\ \A v \in SeqSet(pre) \cup SeqSet(post) : Count(post, v) = Count(pre, v)
           /\ \A i, j \in 1..Len(post) :
                 i < j => /\ ~Comp(c, post[j], post[i])
                          /\ c = "lt" => post[i] <= post[j]
                          /\ c = "gt" => post[i] >= post[j]
           /\ pre = <<>> => <<heap, head, tail, size>>' = <<heap, head, tail, size>>]_vars

\* a descending sort has acted on a full list of differing values
C4_Witness ==
    /\ op.name = "sort"
    /\ op.comp = "gt"
    /\ size = MaxLen
    /\ heap[head].val > heap[tail].val

\* C5: sort allocates and frees no node and changes no value: the nodes and the
\* count stay, only links and head/tail change, the links are consistent when
\* sort returns, and an iterator taken before refers to the same value after.
C5_SortRelinksOnly ==
    [][op'.name = "sort" =>
        /\ Live(heap') = Live(heap)
        /\ \A n \in Nodes : heap'[n].used = heap[n].used /\ heap'[n].val = heap[n].val
        /\ size' = size
        /\ \A pre \in {Chain(heap, head)}, post \in {Chain(heap', head')} :
               SeqSet(post) = SeqSet(pre) /\ Len(post) = Len(pre)
        /\ WellFormed(List(heap', head', tail', size'))
        /\ itr' = itr
        /\ itr.ptr # NULL => heap'[itr.ptr].val = heap[itr.ptr].val]_vars

\* a sort has acted while the caller holds an iterator at a node, and the
\* chain it left does not run in address order
C5_Witness ==
    /\ op.name = "sort"
    /\ itr.ptr # NULL
    /\ \E n \in Nodes : heap[n].used /\ heap[n].next # NULL /\ heap[n].next < n


\* the sequence s with x put in at index k
PutIn(s, k, x) == SubSeq(s, 1, k - 1) \o <<x>> \o SubSeq(s, k, Len(s))

\* the sequence s without its element at index k
TakeOut(s, k) == SubSeq(s, 1, k - 1) \o SubSeq(s, k + 1, Len(s))

\* C6: insert(position, value) puts exactly one new node holding value right
\* before position (first when position is begin(), last when it is the
\* sentinel, the only node of an empty list), raises the count by one and
\* returns an iterator to the new node.
C6_InsertBeforePosition ==
    [][op'.name = "insert" =>
        \A pre \in {Chain(heap, head)}, post \in {Chain(heap', head')},
           p \in {op'.pos}, n \in {op'.ret} :
           \A k \in {IF p = NULL THEN Len(pre) + 1 ELSE Pos(pre, p)} :
           /\ n \in Nodes
           /\ ~heap[n].used
           /\ heap'[n].val = op'.val
           /\ Live(heap') = Live(heap) \cup {n}
           /\ \A m \in Live(heap) : heap'[m].val = heap[m].val
           /\ post = PutIn(pre, k, n)
           /\ p = head => post[1] = n
           /\ p = NULL => post[Len(post)] = n
           /\ size' = size + 1]_vars

\* an insert before an interior node has acted
C6_Witness ==
    /\ op.name = "insert"
    /\ op.ret # NULL
    /\ heap[op.ret].prev # NULL
    /\ heap[op.ret].next # NULL
    /\ heap[op.ret].next = op.pos

\* C7: erase(position) at a node removes that node only, lowers the count by
\* one and returns an iterator to its former successor: the new head for the
\* head, the sentinel for the tail, the next node otherwise.
C7_EraseReturnsSuccessor ==
    [][(op'.name = "erase" /\ ~op'.thrown) =>
        \A pre \in {Chain(heap, head)}, post \in {Chain(heap', head')}, p \in {op'.pos} :
           \A k \in {Pos(pre, p)} :
           /\ k # 0
           /\ post = TakeOut(pre, k)
           /\ Live(heap') = Live(heap) \ {p}
           /\ \A m \in Live(heap') : heap'[m].val = heap[m].val
           /\ size' = size - 1
           /\ op'.ret = IF k = Len(pre) THEN NULL ELSE pre[k + 1]
           /\ p = head => op'.ret = head'
           /\ p = tail => op'.ret = NULL]_vars

\* an erase of an interior node has acted
C7_Witness ==
    /\ op.name = "erase"
    /\ ~op.thrown
    /\ op.ret # NULL
    /\ heap[op.ret].prev # NULL

RECURSIVE Expand(_)
\* the values vals with v+1 put after every v divisible by ten
Expand(vals) ==
    IF vals = <<>> THEN <<>>
    ELSE IF Head(vals) % Ten = 0
         THEN <<Head(vals), Head(vals) + 1>> \o Expand(Tail(vals))
         ELSE <<Head(vals)>> \o Expand(Tail(vals))

\* DLList<int> a3{10,15,20,25,30,35,40}
ScenarioVals == <<10, 15, 20, 25, 30, 35, 40>>

\* the list the test expects after the loop
ScenarioResult == <<10, 11, 15, 20, 21, 25, 30, 31, 35, 40, 41>>

\* the loop run on a3 visits the seven nodes of a3 in order and gives ScenarioResult
Scenario ==
    LET S0 == InitListCtor([n \in 1..Len(ScenarioResult) |-> FreeNode], ScenarioVals)
        r == TensLoop(S0, "a", begin(S0, "a"), <<>>)
    IN /\ r.visited = Chain(S0.heap, S0.head)
       /\ ValsOf(r.st.heap, Chain(r.st.heap, r.st.head)) = ScenarioResult
       /\ r.st.size = Len(ScenarioResult)

\* C8: insert and erase keep every other iterator valid: an iterator at a node
\* that is not erased is at the same node and value afterwards and its ++ and --
\* follow the updated chain; so the loop that inserts value+1 after every
\* visited node divisible by ten visits every original node exactly once.
C8_OtherIteratorsStayValid ==
    [][/\ op'.name \in {"insert", "erase"} =>
           \A pre \in {Chain(heap, head)}, post \in {Chain(heap', head')},
              After \in {List(heap', head', tail', size')},
              gone \in {IF op'.name = "erase" /\ ~op'.thrown THEN {op'.pos} ELSE {}} :
              /\ \A q \in SeqSet(pre) \ gone : \A k \in {Pos(post, q)} :
                    /\ k # 0
                    /\ heap'[q].val = heap[q].val
                    /\ PreInc(After, Iter(q, "a")).ptr =
                           IF k = Len(post) THEN NULL ELSE post[k + 1]
                    /\ PreDec(After, Iter(q, "a")).ptr =
                           IF k = 1 THEN NULL ELSE post[k - 1]
              /\ itr.ptr \notin gone => itr' = itr
       /\ op'.name = "loop" =>
           \A pre \in {Chain(heap, head)}, post \in {Chain(heap', head')},
              r \in {TensLoop(A, "a", begin(A, "a"), <<>>)} :
              /\ r.visited = pre
              /\ ValsOf(heap', post) = Expand(ValsOf(heap, pre))
              /\ size' = Len(post)
              /\ itr' = itr
              /\ Scenario]_vars

\* the loop has acted, made the list longer, and a held iterator is still at its node
C8_Witness ==
    /\ op.name = "loop"
    /\ size >= 3
    /\ itr.ptr # NULL
    /\ \E n \in Nodes : heap[n].used /\ heap[n].val = 10 /\ heap[n].next # NULL
                        /\ heap[heap[n].next].val = 11

RECURSIVE Advance(_, _, _)
\* i after k times ++
Advance(S, i, k) == IF k = 0 THEN i ELSE Advance(S, PreInc(S, i), k - 1)

RECURSIVE Recede(_, _, _)
\* i after k times --
Recede(S, i, k) == IF k = 0 THEN i ELSE Recede(S, PreDec(S, i), k - 1)

\* C9: iteration is cyclic over count+1 positions: ++ takes the sentinel to head
\* and the last node to the sentinel, -- takes the sentinel to tail and head to
\* the sentinel, count+1 times ++ from any position returns to it, and on an
\* empty list the sentinel stays at the sentinel.
C9_CyclicOverCountPlusOne ==
    /\ PreInc(A, Iter(NULL, "a")).ptr = head
    /\ PreDec(A, Iter(NULL, "a")).ptr = tail
    /\ tail # NULL => PreInc(A, Iter(tail, "a")).ptr = NULL
    /\ head # NULL => PreDec(A, Iter(head, "a")).ptr = NULL
    /\ \A S \in {A} : \A p \in Positions : Advance(S, Iter(p, "a"), size + 1) = Iter(p, "a")
    /\ size = 0 => /\ PreInc(A, Iter(NULL, "a")).ptr = NULL
                   /\ PreDec(A, Iter(NULL, "a")).ptr = NULL

\* C10: from every position, k times ++ then k times -- ends at the position,
\* and so does k times -- then k times ++, across the sentinel too; itr++ and
\* itr-- move the iterator as ++itr and --itr do and return the old position.
C10_AdvanceRecedeRoundTrip ==
    \A S \in {A} : \A p \in Positions : \A i \in {Iter(p, "a")} :
        /\ \A k \in 0..MaxK :
              /\ Recede(S, Advance(S, i, k), k) = i
              /\ Advance(S, Recede(S, i, k), k) = i
        /\ PostInc(S, i).it = PreInc(S, i)
        /\ PostDec(S, i).it = PreDec(S, i)
        /\ PostInc(S, i).ret = i
        /\ PostDec(S, i).ret = i

\* -- has taken a held iterator from the sentinel to the tail of a list of two or more
C10_Witness ==
    /\ op.name = "--"
    /\ op.pos = NULL
    /\ op.ret = tail
    /\ size >= 2
    /\ itr.ptr = tail

-----------------------------------------------------------------------------
(* C11..C20 *)

\* the iterators of list a and of list b: one per node, and the sentinel of each
ItersOfA == {Iter(p, "a") : p \in SeqSet(Chain(heap, head)) \cup {NULL}}

ItersOfB == {Iter(p, "b") : p \in SeqSet(Chain(heap, other.head)) \cup {NULL}}

\* C11: two iterators compare equal iff they refer to the same node or both are
\* the sentinel of the same list; a.end() does not compare equal to b.end().
C11_SentinelIsPerList ==
    other.alive =>
        /\ \A i, j \in ItersOfA \cup ItersOfB :
              /\ IterEq(i, j) <=> (i.ptr = j.ptr /\ (i.ptr = NULL => i.list = j.list))
              /\ IterNe(i, j) <=> ~IterEq(i, j)
        /\ ~IterEq(end(A, "a"), end(B, "b"))

\* C12: a move construction, a move assignment and += of an rvalue hand the
\* source's nodes in order to the destination and leave the source empty:
\* head and tail absent and count 0.
C12_MoveLeavesSourceEmpty ==
    [][/\ op'.name = "move" =>
             /\ Chain(heap', other'.head) = Chain(heap, head)
             /\ head' = NULL /\ tail' = NULL /\ size' = 0
             /\ IterEq(begin(List(heap', head', tail', size'), "a"),
                       end(List(heap', head', tail', size'), "a"))
       /\ op'.name = "a=move(b)" =>
             /\ Chain(heap', head') = Chain(heap, other.head)
             /\ other'.head = NULL /\ other'.tail = NULL /\ other'.size = 0
       /\ op'.name = "a+=move(b)" =>
             /\ Chain(heap', head') = Chain(heap, head) \o Chain(heap, other.head)
             /\ other'.head = NULL /\ other'.tail = NULL /\ other'.size = 0]_vars

\* C13: every rejected call fails at its check and changes nothing: pop_front
\* and pop_back are rejected exactly on a list without nodes, get(i) exactly for i
\* outside [-count, count) (so get(count), get(-count-1) and every index on an
\* empty list), erase exactly at the sentinel, *itr exactly at the sentinel;
\* after a rejected call the nodes, head, tail and count are as before.
C13_RejectedCallsChangeNothing ==
    [][/\ op'.name \in {"pop_front", "pop_back"} =>
             /\ op'.thrown <=> head = NULL
             /\ size = 0 => op'.thrown
       /\ op'.name \in {"get", "get="} =>
             /\ op'.thrown <=> (op'.pos \notin (0 - size)..(size - 1))
             /\ op'.pos \in {size, 0 - size - 1} => op'.thrown
             /\ size = 0 => op'.thrown
       /\ op'.name \in {"erase", "*"} => (op'.thrown <=> op'.pos = NULL)
       /\ op'.thrown =>
             /\ <<heap, head, tail, size>>' = <<heap, head, tail, size>>
             /\ \A pre \in {Chain(heap, head)}, post \in {Chain(heap', head')} :
                   post = pre /\ ValsOf(heap', post) = ValsOf(heap, pre)]_vars

\* an assignment through get(count) was rejected on a list of two
C13_Witness ==
    /\ op.name = "get="
    /\ op.thrown
    /\ size = 2
    /\ op.pos = size

\* C14: an accepted get(i) returns a reference to the element at 0-based
\* position i for i >= 0 and at position count+i for i < 0, so get(-1) is the
\* last element and get(i) and get(i - count) are the same element; get is
\* accepted for every i in [-count, count); an assignment through the
\* reference changes that element and nothing else.
C14_GetIndexesFromBothEnds ==
    [][(op'.name \in {"get", "get="} /\ ~op'.thrown) =>
        \A pre \in {Chain(heap, head)}, i \in {op'.pos} :
           \A k \in {IF i >= 0 THEN i + 1 ELSE size + i + 1} :
              /\ k \in 1..Len(pre)
              /\ op'.ret = pre[k]
              /\ i = 0 - 1 => op'.ret = tail
              /\ \A j \in 0..(size - 1) :
                    /\ ~get(A, j).thrown /\ ~get(A, j - size).thrown
                    /\ get(A, j).ref = get(A, j - size).ref
                    /\ ~get(A, j).undefined
              /\ <<head, tail, size>>' = <<head, tail, size>>
              /\ op'.name = "get" => heap' = heap
              /\ op'.name = "get=" =>
                    /\ heap'[pre[k]].val = op'.val
                    /\ heap' = [heap EXCEPT ![pre[k]].val = op'.val]
                    /\ Chain(heap', head') = pre]_vars

Rev(s) == [k \in 1..Len(s) |-> s[Len(s) + 1 - k]]

\* C18: reverse() turns the traversal v0..v(n-1) into v(n-1)..v0, allocates and
\* frees nothing, changes no value and not the count; a second reverse()
\* restores the original list, the empty list and a singleton included.
C18_ReverseIsAnInvolution ==
    [][op'.name = "reverse" =>
        \A pre \in {Chain(heap, head)}, post \in {Chain(heap', head')},
           twice \in {reverse(List(heap', head', tail', size'))} :
           /\ post = Rev(pre)
           /\ ValsOf(heap', post) = Rev(ValsOf(heap, pre))
           /\ \A n \in Nodes : heap'[n].used = heap[n].used /\ heap'[n].val = heap[n].val
           /\ size' = size
           /\ twice = A
           /\ Chain(twice.heap, twice.head) = pre
           /\ Len(pre) <= 1 => post = pre]_vars

\* a reverse has acted on a full list whose first and last values differ
C18_Witness ==
    /\ op.name = "reverse"
    /\ size = MaxLen
    /\ heap[head].val # heap[tail].val
    /\ head > tail

\* C16: for two different lists, a += b and a += std::move(b) make a's
\* traversal the former sequence of a followed by the former sequence of b and
\* a's count the sum of the two former counts, also when a or b is empty; the
\* copying variant leaves b's sequence, count and nodes as they were.
C16_ConcatenationAppendsInOrder ==
    [][op'.name \in {"a+=b", "a+=move(b)"} =>
        \A preA \in {Chain(heap, head)}, preB \in {Chain(heap, other.head)},
           post \in {Chain(heap', head')} :
           /\ ValsOf(heap', post) = ValsOf(heap, preA) \o ValsOf(heap, preB)
           /\ size' = size + other.size
           /\ op'.name = "a+=move(b)" => post = preA \o preB
           /\ op'.name = "a+=b" =>
                 /\ SubSeq(post, 1, Len(preA)) = preA
                 /\ SeqSet(post) \cap SeqSet(preB) = {}
                 /\ other' = other
                 /\ Chain(heap', other'.head) = preB
                 /\ \A n \in SeqSet(preB) : heap'[n] = heap[n]]_vars

\* C17: once a call has returned no node is reachable from the head or the
\* tail of both lists, whatever constructions, copies, moves, concatenations
\* and mutations came before; and every node a list reaches is allocated.
C17_NodesHaveOneOwner ==
    \A fa \in {SeqSet(Chain(heap, head)) \cup SeqSet(ChainBack(heap, tail))},
       fb \in {SeqSet(Chain(heap, other.head)) \cup SeqSet(ChainBack(heap, other.tail))} :
       /\ fa \cap fb = {}
       /\ \A n \in fa \cup fb : heap[n].used

\* a += b has copied the node of b behind the nodes of a, and b still has it
C17_Witness ==
    /\ op.name = "a+=b"
    /\ other.head # NULL
    /\ size > other.size
    /\ heap[tail].prev # NULL
    /\ tail # other.tail

\* the count of a list is the number of its nodes and its chain is well formed
Sound(S) == WellFormed(S) /\ S.size = Len(Chain(S.heap, S.head))

\* C19: for well-formed a and b, a == b is true iff the counts are equal and the
\* values are pairwise equal in traversal order, a != b is the negation, and
\* with different counts no element is compared.
C19_EqualityIsByCountAndValues ==
    [][(op'.name \in {"a==b", "a!=b"} /\ Sound(A) /\ Sound(B)) =>
        \A va \in {ValsOf(heap, Chain(heap, head))},
           vb \in {ValsOf(heap, Chain(heap, other.head))} :
           \A same \in {/\ size = other.size
                        /\ \A k \in 1..size : va[k] = vb[k]} :
              /\ ~ListEq(A, B).undefined
              /\ ListEq(A, B).ret = same
              /\ ListNe(A, B).ret = ~ListEq(A, B).ret
              /\ op'.name = "a==b" => op'.ret = Bit(same)
              /\ op'.name = "a!=b" => op'.ret = Bit(~same)
              /\ size # other.size => op'.val = 0
              /\ same => op'.val = size]_vars

\* a == b was false for two lists of two whose last elements differ
C19_Witness ==
    /\ op.name = "a==b"
    /\ op.ret = Bit(FALSE)
    /\ op.val = 2
    /\ size = 2
    /\ other.size = 2
    /\ Sound(A)
    /\ Sound(B)

\* C20: DLList b(a) builds b from new nodes only, with the values and the
\* count of a: b == a, the two lists share no node, a is unchanged; a later
\* mutation of one list leaves the sequence and the count of the other.
C20_CopyIsDeepAndIndependent ==
    [][/\ op'.name = "b(a)" =>
           \A pre \in {Chain(heap, head)}, copy \in {Chain(heap', other'.head)} :
              /\ ListEq(List(heap', other'.head, other'.tail, other'.size),
                        List(heap', head', tail', size')).ret
              /\ ValsOf(heap', copy) = ValsOf(heap, pre)
              /\ other'.size = size
              /\ \A n \in SeqSet(copy) : ~heap[n].used
              /\ SeqSet(copy) \cap SeqSet(pre) = {}
              /\ <<head, tail, size>>' = <<head, tail, size>>
              /\ \A n \in Live(heap) : heap'[n] = heap[n]
              /\ Chain(heap', head') = pre
       /\ op'.name = "push_back" =>
              /\ other' = other
              /\ Chain(heap', other'.head) = Chain(heap, other.head)
              /\ \A n \in SeqSet(Chain(heap, other.head)) : heap'[n].val = heap[n].val
       /\ op'.name = "b.pop_front" =>
              /\ <<head, tail, size>>' = <<head, tail, size>>
              /\ Chain(heap', head') = Chain(heap, head)
              /\ \A n \in SeqSet(Chain(heap, head)) : heap'[n].val = heap[n].val]_vars

\* a list of two has been copied
C20_Witness ==
    /\ op.name = "b(a)"
    /\ size = 2
    /\ other.size = 2
    /\ head # NULL
    /\ other.head # NULL
    /\ other.head # head
    /\ heap[head].val # heap[tail].val

-----------------------------------------------------------------------------
(* C21..C30 *)

\* C21: DLList(n, v) is rejected exactly when n < 0 or n >= 2^48, and then no
\* node has been allocated and no list exists; an accepted n that the free
\* nodes suffice for builds a well-formed list of exactly n nodes, all taken
\* from the free nodes and each holding v (no node and a null head for n = 0),
\* and leaves the nodes of list a alone.
C21_SizedConstructor ==
    [][op'.name = "b(n,v)" =>
        \A siz \in {Int64(op'.pos, op'.ret)}, made \in {Chain(heap', other'.head)} :
           /\ op'.thrown <=> (siz.hi < 0 \/ siz.hi >= Word)
           /\ op'.thrown => heap' = heap /\ ~other'.alive
           /\ (siz.hi = 0 /\ siz.lo <= Cardinality(Free(heap))) =>
                 /\ ~op'.thrown
                 /\ op'.comp = ""
                 /\ other'.alive
                 /\ Sound(List(heap', other'.head, other'.tail, other'.size))
                 /\ Len(made) = siz.lo
                 /\ other'.size = siz.lo
                 /\ siz.lo = 0 => other'.head = NULL /\ other'.tail = NULL
                 /\ \A n \in SeqSet(made) : ~heap[n].used /\ heap'[n].val = op'.val
                 /\ \A n \in Live(heap) : heap'[n] = heap[n]
                 /\ Live(heap') = Live(heap) \cup SeqSet(made)]_vars

\* a list of at least two nodes has been built by size next to a non-empty list a
C21_Witness ==
    /\ op.name = "b(n,v)"
    /\ ~op.thrown
    /\ other.alive
    /\ other.size >= 2
    /\ other.head # other.tail
    /\ head # NULL

\* C28: a += b returns after appending copies of exactly the values its argument
\* held when the call began, also when the argument is a itself: a += a leaves
\* a holding its former values twice.
C28_SelfAppendTerminates ==
    [][/\ op'.name = "a+=b" =>
              /\ op'.comp = ""
              /\ ValsOf(heap', Chain(heap', head'))
                    = ValsOf(heap, Chain(heap, head)) \o ValsOf(heap, Chain(heap, other.head))
       /\ op'.name = "a+=a" =>
              /\ op'.comp = ""
              /\ ValsOf(heap', Chain(heap', head'))
                    = ValsOf(heap, Chain(heap, head)) \o ValsOf(heap, Chain(heap, head))]_vars

\* C29: a = b leaves a with copies of the values its argument held when the call
\* began, in nodes of its own, and with a count equal to the number of its
\* nodes; the argument is unchanged; a = a keeps the contents of a.
C29_CopyAssignment ==
    [][/\ op'.name = "a=b" =>
              /\ ValsOf(heap', Chain(heap', head')) = ValsOf(heap, Chain(heap, other.head))
              /\ size' = Len(Chain(heap', head'))
              /\ SeqSet(Chain(heap', head')) \cap SeqSet(Chain(heap, other.head)) = {}
              /\ other' = other
              /\ Chain(heap', other'.head) = Chain(heap, other.head)
              /\ \A n \in SeqSet(Chain(heap, other.head)) : heap'[n] = heap[n]
       /\ op'.name = "a=a" =>
              /\ ValsOf(heap', Chain(heap', head')) = ValsOf(heap, Chain(heap, head))
              /\ size' = Len(Chain(heap', head'))]_vars

\* C30: in every state the public interface reaches, a moved-from list included,
\* no call of get(i) and no comparison a == b or b == a reads through a null
\* pointer, the two comparisons give the same answer, and pop_front and pop_back
\* are rejected exactly when the pointer they would follow is null.
C30_NoAbsentLinkIsFollowed ==
    /\ \A i \in Indices : ~get(A, i).undefined
    /\ pop_front(A).thrown <=> head = NULL
    /\ pop_back(A).thrown <=> tail = NULL
    /\ other.alive =>
          /\ ~ListEq(A, B).undefined
          /\ ~ListEq(B, A).undefined
          /\ ListEq(A, B).ret = ListEq(B, A).ret
          /\ pop_front(B).thrown <=> other.head = NULL
          /\ pop_back(B).thrown <=> other.tail = NULL

\* C22: sort(comp) is idempotent: a second sort(comp) leaves the sorted list as
\* it is, node for node and link for link, and so does a sort(comp) of any list
\* in which no element is comp-before an earlier one.
C22_SortIsIdempotent ==
    [][op'.name = "sort" =>
        \A c \in {op'.comp}, pre \in {ValsOf(heap, Chain(heap, head))},
           post \in {List(heap', head', tail', size')} :
           /\ sort(post, c) = post
           /\ (\A i, j \in 1..Len(pre) : i < j => ~Comp(c, pre[j], pre[i]))
                 => post = A]_vars

\* a sort by tens has acted on a full list and left a chain that holds a tie and
\* does not start at the first address
C22_Witness ==
    /\ op.name = "sort"
    /\ op.comp = "tens"
    /\ size = MaxLen
    /\ head # 1
    /\ \E x \in Nodes : /\ heap[x].used
                        /\ heap[x].next # NULL
                        /\ Tie("tens", heap[x].val, heap[heap[x].next].val)
                        /\ heap[x].val # heap[heap[x].next].val

\* the least k with 2^k >= n
CeilLog2(n) == CHOOSE k \in 0..n : 2^k >= n /\ \A j \in 0..(k - 1) : 2^j < n

RECURSIVE SortCalls(_, _, _, _, _)
\* the calls of _sort made by _sort(beg, end, comp), the outer call at depth 0:
\* the sub-list each call is given and, when it has two nodes or more, what its
\* two-pointer loop and its cut do
SortCalls(h, beg, end_, c, depth) ==
    LET sub == Chain(h, beg)
        given == [depth |-> depth, len |-> Len(sub),
                  bounded |-> h[beg].prev = NULL /\ h[end_].next = NULL,
                  linked |-> /\ sub[Len(sub)] = end_
                             /\ \A k \in 2..Len(sub) : h[sub[k]].prev = sub[k - 1]]
    IN IF beg = end_
       THEN {[call |-> given, loop |-> [steps |-> 0, undefined |-> FALSE, adjacent |-> TRUE],
              left |-> 0, right |-> 0]}
       ELSE LET m == SplitLoop(h, beg, end_)
            IN IF m.undefined
               THEN {[call |-> given,
                      loop |-> [steps |-> m.steps, undefined |-> TRUE, adjacent |-> FALSE],
                      left |-> 0, right |-> 0]}
               ELSE LET h1 == [h EXCEPT ![m.m1].next = NULL]
                        h2 == [h1 EXCEPT ![m.m2].prev = NULL]
                        sorted_left == sort_rec(h2, beg, m.m1, c)
                    IN {[call |-> given,
                         loop |-> [steps |-> m.steps, undefined |-> FALSE,
                                   adjacent |-> h[m.m1].next = m.m2],
                         left |-> Len(Chain(h2, beg)), right |-> Len(Chain(h2, m.m2))]}
                       \cup SortCalls(h2, beg, m.m1, c, depth + 1)
                       \cup SortCalls(sorted_left.heap, m.m2, end_, c, depth + 1)

C27_GetWalksFromTheNearerEnd ==
    [][(op'.name = "get" /\ ~op'.thrown) =>
        \A r \in {get(A, op'.pos)}, s \in {Chain(heap, head)},
           j \in {IF op'.pos >= 0 THEN op'.pos ELSE size + op'.pos} :
           /\ r.back <=> j >= size \div 2
           /\ r.links <= size \div 2
           /\ ~r.undefined =>
                 /\ r.links = IF r.back THEN size - 1 - j ELSE j
                 /\ r.links <= j
                 /\ r.links <= size - 1 - j
           /\ j < Len(s) =>
                 /\ op'.ret = s[j + 1]
                 /\ size = Len(s) => /\ ~r.undefined
                                     /\ GetFrontLoop(A, head, j, Len(s)).ref = s[j + 1]
                                     /\ GetBackLoop(A, tail, j, Len(s)).ref = s[j + 1]]_vars

\* get has returned the middle node of a full list, reached from the tail
C27_Witness ==
    /\ op.name = "get"
    /\ ~op.thrown
    /\ size = MaxLen
    /\ Len(Chain(heap, head)) = MaxLen
    /\ op.pos = size \div 2
    /\ op.ret # head
    /\ op.ret # tail
    /\ op.ret # NULL

RECURSIVE TSetWalk(_, _, _)
\* the values met by ++ from the node n until end(), at most k of them
TSetWalk(S, n, k) ==
    IF n = NULL \/ k = 0 THEN <<>>
    ELSE <<S.heap[n].val>> \o TSetWalk(S, TSet_inc(S.heap, n, S.root), k - 1)

\* the values that iterating from begin() to end() visits, in order
Iterated(S) == TSetWalk(S, TSet_begin(S), Cardinality(DOMAIN S.heap) + 1)

RECURSIVE TSetWalkBack(_, _, _)
\* the values met by -- from the node n until end(), at most k of them
TSetWalkBack(S, n, k) ==
    IF n = NULL \/ k = 0 THEN <<>>
    ELSE <<S.heap[n].val>> \o TSetWalkBack(S, TSet_dec(S.heap, n, S.root), k - 1)

\* the values that iterating backward from the last element to end() visits
IteratedBack(S) ==
    TSetWalkBack(S, TSet_dec(S.heap, NULL, S.root), Cardinality(DOMAIN S.heap) + 1)

\* the values held by the nodes of the set
Contained(S) == {S.heap[n].val : n \in {m \in DOMAIN S.heap : S.heap[m].used}}

\* C23: every insert(val) and erase(val) from the empty set on completes
\* without a store through a null pointer; insert adds val and nothing else,
\* erase removes val and nothing else, whatever children its node has; after
\* the call, iterating from begin() to end() visits the contained values, each
\* once, in strictly increasing order (and backward in the opposite order),
\* and size() is their number.
C23_TSetStaysSorted ==
    [][op'.name \in {"insert", "erase"} =>
        \A before \in {Contained(tset)}, after \in {Contained(tset')},
           seen \in {Iterated(tset')}, v \in {op'.val} :
           /\ op'.comp = ""
           /\ op'.name = "insert" => after = before \cup {v} /\ op'.ret = Bit(v \notin before)
           /\ op'.name = "erase" => after = before \ {v} /\ op'.ret = Bit(v \in before)
           /\ SeqSet(seen) = after
           /\ Len(seen) = Cardinality(after)
           /\ \A i, j \in 1..Len(seen) : i < j => seen[i] < seen[j]
           /\ IteratedBack(tset') = Rev(seen)
           /\ tset'.size = Cardinality(after)]_vars

\* beg or end as slice converts it: a negative one counts from the end
Converted(x, len) == IF x >= 0 THEN x ELSE len + x

\* a converted beg or end clamped to [0, size]
Clamped(x, len) == IF x < 0 THEN 0 ELSE IF x > len THEN len ELSE x

\* the elements of arr at the indexes beg, beg + step, ... below end, for beg and
\* end converted and clamped
Picked(arr, beg, end_, step) ==
    LET b == Clamped(Converted(beg, Len(arr)), Len(arr))
        e == Clamped(Converted(end_, Len(arr)), Len(arr))
        count == Cardinality({i \in b..(e - 1) : (i - b) % step = 0})
    IN [k \in 1..count |-> arr[b + (k - 1) * step + 1]]

\* C24: slice(beg, end, step) is rejected exactly when step < 1; for every
\* step >= 1 it returns a new array of the elements at beg, beg + step, ...
\* below end, beg and end converted and clamped to [0, size], which is the
\* empty array when there is no such index; the array sliced is unchanged;
\* slice of FixArray does the same.
C24_SliceTakesEveryStepth ==
    [][op'.name = "slice" =>
        \A beg \in {op'.pos}, end_ \in {op'.val}, step \in {op'.ret} :
           /\ op'.thrown <=> step < 1
           /\ step >= 1 =>
                 /\ sliced' = Picked(darr.arr, beg, end_, step)
                 /\ FixArray_slice(darr.arr, beg, end_, step)
                       = [thrown |-> FALSE, arr |-> Picked(darr.arr, beg, end_, step)]
           /\ darr' = darr]_vars

\* the calls on a DynArray that change its size or its allocated space
ArrCalls == {"push", "pop", "insert", "erase", "resize", "realloc", "shrink", "clear"}

\* C25: after each of push, pop, insert, erase, resize, realloc, shrink and
\* clear, from the empty array on, alloc() >= size(); a push, and an insert at
\* an index in [-size, size], on a full array is not rejected: the array grows
\* to _resizer(alloc), which is more than alloc (1 from 0), and its size goes
\* up by one; pushes and accepted inserts on an array that is not full leave
\* alloc as it is.
C25_AllocCoversSize ==
    [][op'.name \in ArrCalls =>
        \A len \in {Len(darr.arr)} :
           /\ darr'.alloc >= Len(darr'.arr)
           /\ darr.alloc >= len
           /\ (op'.name = "push" \/ (op'.name = "insert" /\ op'.pos >= 0 - len /\ op'.pos <= len)) =>
                 /\ ~op'.thrown
                 /\ Len(darr'.arr) = len + 1
                 /\ darr'.alloc = IF len = darr.alloc THEN resizer(darr.alloc) ELSE darr.alloc
                 /\ len = darr.alloc => darr'.alloc > darr.alloc
                 /\ darr.alloc = 0 => darr'.alloc = 1]_vars

\* a push has grown a full array by two slots
C25_Witness ==
    /\ op.name = "push"
    /\ ~op.thrown
    /\ Len(darr.arr) = darr.alloc - 1
    /\ resizer(darr.alloc - 2) = darr.alloc

====
